---- MODULE Spec2Model ----
(***************************************************************************)
(* A model of the breaker-box circuit breaker (rust/src/circuit_breaker.rs *)
(* and rust/src/ring_buffer.rs).                                           *)
(*                                                                         *)
(* Time is counted in integer ticks: an Instant is a natural number, a     *)
(* Duration a number of ticks.  Instant::now() reads the variable `now`;   *)
(* time passes between calls (Tick) and between the clock reads inside one *)
(* call (the reads a handler makes are drawn non-decreasing).              *)
(*                                                                         *)
(* Percentages (the f32 error rate and Settings.error_threshold) are       *)
(* counted in hundredths of a percent: 39.99 is 3999, 100.0 is 10000.      *)
(* get_error_rate rounds to a whole number of hundredths before it divides *)
(* by 100.0, so on thresholds with at most two decimals the integer        *)
(* comparison is the f32 comparison.  The whole number itself is computed  *)
(* as the code computes it, in f32: an f32 is kept as a mantissa of 24     *)
(* bits and a binary exponent, and every operation rounds its exact result *)
(* to the nearest such value, ties to the even mantissa.                   *)
(***************************************************************************)
EXTENDS Integers, Sequences, FiniteSets, TLC

VARIABLES
    settings,       \* CircuitBreaker.settings
    buffer,         \* CircuitBreaker.buffer : RingBuffer {cursor, nodes}
    state,          \* CircuitBreaker.state  : [tag, at] (at = 0 unless Open)
    last_record,    \* CircuitBreaker.last_record
    start_time,     \* CircuitBreaker.start_time
    trial_success,  \* CircuitBreaker.trial_success
    now,            \* the monotonic clock behind Instant::now()
    call            \* the last call made and what it observed (history)

vars == <<settings, buffer, state, last_record, start_time, trial_success, now, call>>

----------------------------------------------------------------------------
(* Bounds of the model.                                                    *)

\* The clock stops at MaxTime ticks.
MaxTime == 6
\* record is not called on a breaker whose window holds MaxHeld observations.
MaxHeld == 3
\* RingBuffer::advance is called directly with 0 .. MaxSteps steps.
MaxSteps == 4
\* add_failure and add_success are not called directly on a buffer that holds
\* MaxObservations observations.
MaxObservations == 6
\* Under SpecRate the buffers start with up to MaxRateFailures failures and
\* MaxRateSuccesses successes in one node.
MaxRateFailures == 775
MaxRateSuccesses == 138
\* Under SpecWide the clock stops at MaxTimeWide ticks, and timestamps up to
\* one tick later are passed to advance_buffer_for_time.
MaxTimeWide == 2
\* Under SpecScenario the clock stops at MaxTimeScenario ticks.
MaxTimeScenario == 12
\* Under SpecLive the clock stops at MaxTimeLive ticks and record is not
\* called on a breaker whose window holds MaxHeldLive observations.
MaxTimeLive == 5
MaxHeldLive == 2
\* Under SpecEdge the clock stops at MaxTimeEdge ticks, outcomes are not added
\* to a window that holds MaxHeldEdge observations, and get_node_info is called
\* with the indices 0 .. MaxIndex.
MaxTimeEdge == 2
MaxHeldEdge == 3
MaxIndex == 4
\* A caller that drives the breaker towards a state makes up to MaxMoves calls.
MaxMoves == 6
\* Under SpecElapsed the clock stops at MaxTimeElapsed ticks, outcomes are not
\* added to a window that holds MaxHeldElapsed observations, and
\* get_elapsed_time is called with spans of 1 .. MaxSpanArg ticks and times
\* up to MaxSpanArg ticks past MaxTimeElapsed.
MaxTimeElapsed == 3
MaxHeldElapsed == 2
MaxSpanArg == 3

----------------------------------------------------------------------------
(* ring_buffer.rs                                                          *)

NodeNew == [failure_count |-> 0, success_count |-> 0]

NodeReset(node) == [node EXCEPT !.failure_count = 0, !.success_count = 0]

RingBufferNew(elements) ==
    [cursor |-> 0, nodes |-> [i \in 0 .. elements - 1 |-> NodeNew]]

GetSize(rb) == Cardinality(DOMAIN rb.nodes)

GetCursor(rb) == rb.cursor

\* Mutant of Advance: the sweep starts at the cursor, not after it.
AdvanceFromCursor(rb, steps) ==
    IF GetSize(rb) = 0 THEN rb
    ELSE
        LET size == GetSize(rb)
            start == rb.cursor
            end == rb.cursor + steps + 1
            swept == IF steps >= size
                     THEN [i \in DOMAIN rb.nodes |-> NodeReset(rb.nodes[i])]
                     ELSE [i \in DOMAIN rb.nodes |->
                             IF \E idx \in start .. end - 1 : idx % size = i
                             THEN NodeReset(rb.nodes[i])
                             ELSE rb.nodes[i]]
            cursor == (rb.cursor + steps) % size
        IN  [cursor |-> cursor,
             nodes |-> [swept EXCEPT ![cursor] = NodeReset(swept[cursor])]]

\* Mutant of Advance: the steps are reduced modulo the size before the sweep.
AdvanceModulo(rb, steps) ==
    IF GetSize(rb) = 0 THEN rb
    ELSE
        LET size == GetSize(rb)
            start == rb.cursor + 1
            end == rb.cursor + (steps % size) + 1
            swept == [i \in DOMAIN rb.nodes |->
                        IF \E idx \in start .. end - 1 : idx % size = i
                        THEN NodeReset(rb.nodes[i])
                        ELSE rb.nodes[i]]
            cursor == (rb.cursor + steps) % size
        IN  [cursor |-> cursor,
             nodes |-> [swept EXCEPT ![cursor] = NodeReset(swept[cursor])]]

\* Mutant of Advance: the new cursor is not wrapped around.
AdvanceUnwrapped(rb, steps) ==
    IF GetSize(rb) = 0 THEN rb
    ELSE
        LET size == GetSize(rb)
            start == rb.cursor + 1
            end == rb.cursor + steps + 1
            swept == IF steps >= size
                     THEN [i \in DOMAIN rb.nodes |-> NodeReset(rb.nodes[i])]
                     ELSE [i \in DOMAIN rb.nodes |->
                             IF \E idx \in start .. end - 1 : idx % size = i
                             THEN NodeReset(rb.nodes[i])
                             ELSE rb.nodes[i]]
            cursor == rb.cursor + steps
        IN  [cursor |-> cursor,
             nodes |-> IF cursor \in DOMAIN swept
                       THEN [swept EXCEPT ![cursor] = NodeReset(swept[cursor])]
                       ELSE swept]

Advance(rb, steps) ==
    IF GetSize(rb) = 0 THEN rb
    ELSE
        LET size == GetSize(rb)
            start == rb.cursor + 1
            end == rb.cursor + steps + 1
            swept == IF steps >= size
                     THEN [i \in DOMAIN rb.nodes |-> NodeReset(rb.nodes[i])]
                     ELSE [i \in DOMAIN rb.nodes |->
                             IF \E idx \in start .. end - 1 : idx % size = i
                             THEN NodeReset(rb.nodes[i])
                             ELSE rb.nodes[i]]
            cursor == (rb.cursor + steps) % size
        IN  [cursor |-> cursor,
             nodes |-> [swept EXCEPT ![cursor] = NodeReset(swept[cursor])]]

AddFailure(rb) ==
    [rb EXCEPT !.nodes[rb.cursor].failure_count = @ + 1]

AddSuccess(rb) ==
    [rb EXCEPT !.nodes[rb.cursor].success_count = @ + 1]

\* add_failure and add_success index the nodes with the cursor: a Vec indexed
\* outside its length panics, before anything is written.
AddPanics(rb) == rb.cursor \notin DOMAIN rb.nodes

\* Mutant of GetNodeInfo: the guard is the only check, and the index that
\* passes it without naming a node gives zero counts.
GetNodeInfoGuardOnly(rb, index) ==
    IF index > GetSize(rb)
    THEN [panicked |-> TRUE, message |-> "Index out of bounds", info |-> <<>>]
    ELSE IF index \notin DOMAIN rb.nodes
    THEN [panicked |-> FALSE, message |-> "",
          info |-> <<[failure_count |-> 0, success_count |-> 0]>>]
    ELSE [panicked |-> FALSE, message |-> "",
          info |-> <<[failure_count |-> rb.nodes[index].failure_count,
                      success_count |-> rb.nodes[index].success_count]>>]

\* get_node_info: whether the call panicked, with which message, and the
\* NodeInfo returned (<<>> if none).  The guard lets index = len through;
\* the indexing of the Vec that follows panics on it.
GetNodeInfo(rb, index) ==
    IF index > GetSize(rb)
    THEN [panicked |-> TRUE, message |-> "Index out of bounds", info |-> <<>>]
    ELSE IF index \notin DOMAIN rb.nodes
    THEN [panicked |-> TRUE, message |-> "index out of bounds", info |-> <<>>]
    ELSE [panicked |-> FALSE, message |-> "",
          info |-> <<[failure_count |-> rb.nodes[index].failure_count,
                      success_count |-> rb.nodes[index].success_count]>>]

\* The loop of get_error_rate from node i on: <<failures, successes>>.
RECURSIVE ErrorRateLoop(_, _, _)
ErrorRateLoop(rb, i, acc) ==
    IF i >= GetSize(rb) THEN acc
    ELSE
        LET node == rb.nodes[i] IN
        IF i = rb.cursor THEN ErrorRateLoop(rb, i + 1, acc)
        ELSE IF node.failure_count + node.success_count # 0
        THEN ErrorRateLoop(rb, i + 1,
                 <<acc[1] + node.failure_count, acc[2] + node.success_count>>)
        ELSE ErrorRateLoop(rb, i + 1, acc)

RECURSIVE Pow2(_)
Pow2(n) == IF n = 0 THEN 1 ELSE 2 * Pow2(n - 1)

\* Rounding to nearest, ties to even: q is the quotient kept and rem the
\* remainder dropped, out of den.
RoundTiesEven(q, rem, den) ==
    IF 2 * rem > den \/ (2 * rem = den /\ q % 2 = 1) THEN q + 1 ELSE q

\* failures as f32 / total as f32, for 0 < failures <= total < 2^24 (counts
\* the conversion to f32 keeps exact): the f32 nearest to the quotient, as
\* mant * 2^exp with 2^23 <= mant <= 2^24.  The quotient is scaled into
\* [1, 2) and divided bit by bit.
RECURSIVE F32Scale(_, _, _)
F32Scale(r, t, e) == IF r >= t THEN <<r, e>> ELSE F32Scale(2 * r, t, e + 1)

RECURSIVE F32Bits(_, _, _, _)
F32Bits(r, t, m, bits) ==
    IF bits = 0 THEN <<m, r>>
    ELSE LET b == IF r >= t THEN 1 ELSE 0
         IN  F32Bits(2 * (r - b * t), t, 2 * m + b, bits - 1)

F32Div(failures, total) ==
    LET scaled == F32Scale(failures, total, 0)
        bits == F32Bits(scaled[1], total, 0, 24)
    IN  \* bits[2] is twice the remainder of the last digit
        [mant |-> RoundTiesEven(bits[1], bits[2], 2 * total),
         exp |-> 0 - scaled[2] - 23]

\* x * 10_000.0 in f32: the product of the mantissa and 10000 has 37 or 38
\* bits and is rounded to 24 of them (it is computed in two halves of 12
\* bits of the mantissa).
F32TimesTenThousand(x) ==
    LET mh == x.mant \div 4096
        ml == x.mant % 4096
        high == mh * 10000 + (ml * 10000) \div 4096
        low == (ml * 10000) % 4096
        \* the product is high * 2^12 + low
        drop == IF high >= Pow2(25) THEN 4 ELSE 2
    IN  [mant |-> RoundTiesEven(high \div drop, (high % drop) * 4096 + low,
                                drop * 4096),
         exp |-> x.exp + 12 + (IF drop = 4 THEN 2 ELSE 1)]

\* f32::round of a non-negative x: to the nearest whole number, half away
\* from zero.
F32Round(x) ==
    IF x.exp >= 0 THEN x.mant * Pow2(x.exp)
    ELSE IF 0 - x.exp > 26 THEN 0
    ELSE (x.mant + Pow2(0 - x.exp - 1)) \div Pow2(0 - x.exp)

\* Mutant of RoundedRate: the rate is truncated to a whole number of
\* hundredths.
RoundedRateTruncated(failures, total) == (failures * 10000) \div total

\* ((failures as f32 / total as f32) * 10_000.0).round(): the rate in
\* hundredths of a percent, before the division by 100.0.
F32Rate(failures, total) ==
    IF failures = 0 THEN 0
    ELSE F32Round(F32TimesTenThousand(F32Div(failures, total)))

\* F32Rate of the small counts, computed once.
RateTableSize == 16
RateTable ==
    [total \in 1 .. RateTableSize |->
        [failures \in 0 .. total |-> F32Rate(failures, total)]]

RoundedRate(failures, total) ==
    IF total <= RateTableSize THEN RateTable[total][failures]
    ELSE F32Rate(failures, total)

\* Mutant of GetErrorRate: no min_eval_size gate.
GetErrorRateUngated(rb, min_eval_size) ==
    LET acc == ErrorRateLoop(rb, 0, <<0, 0>>)
        failures == acc[1]
        successes == acc[2]
    IN  IF failures + successes = 0
        THEN 0
        ELSE RoundedRate(failures, failures + successes)

\* Mutant of GetErrorRate: the node at the cursor is counted too.
GetErrorRateWithCurrent(rb, min_eval_size) ==
    LET failures ==
            ErrorRateLoop(rb, 0, <<0, 0>>)[1] + rb.nodes[rb.cursor].failure_count
        successes ==
            ErrorRateLoop(rb, 0, <<0, 0>>)[2] + rb.nodes[rb.cursor].success_count
    IN  IF failures + successes < min_eval_size \/ failures + successes = 0
        THEN 0
        ELSE RoundedRate(failures, failures + successes)

\* Mutant of GetErrorRate: the successes are divided by the total.
GetErrorRateOfSuccesses(rb, min_eval_size) ==
    LET acc == ErrorRateLoop(rb, 0, <<0, 0>>)
        failures == acc[1]
        successes == acc[2]
    IN  IF failures + successes < min_eval_size \/ failures + successes = 0
        THEN 0
        ELSE RoundedRate(successes, failures + successes)

\* The rate in hundredths of a percent.
GetErrorRate(rb, min_eval_size) ==
    LET acc == ErrorRateLoop(rb, 0, <<0, 0>>)
        failures == acc[1]
        successes == acc[2]
    IN  IF failures + successes < min_eval_size \/ failures + successes = 0
        THEN 0
        ELSE RoundedRate(failures, failures + successes)

----------------------------------------------------------------------------
(* circuit_breaker.rs                                                      *)

Closed == [tag |-> "Closed", at |-> 0]
Open(t) == [tag |-> "Open", at |-> t]
HalfOpen == [tag |-> "HalfOpen", at |-> 0]

\* Instant::duration_since and Instant::elapsed saturate at zero.
DurationSince(later, earlier) == IF later >= earlier THEN later - earlier ELSE 0

\* The breaker as one value, for the operators below.
CB == [buffer |-> buffer, state |-> state, last_record |-> last_record,
       start_time |-> start_time, trial_success |-> trial_success,
       settings |-> settings]

\* Mutant of New: the buffer is built with the default capacity.
NewDefaultBuffer(s, r1, r2) ==
    [buffer |-> RingBufferNew(5), state |-> Closed,
     last_record |-> r1, start_time |-> r2, trial_success |-> 0,
     settings |-> s]

\* CircuitBreaker::new: Instant::now() is read for last_record (r1), then
\* for start_time (r2).
New(s, r1, r2) ==
    [buffer |-> RingBufferNew(s.buffer_size), state |-> Closed,
     last_record |-> r1, start_time |-> r2, trial_success |-> 0,
     settings |-> s]

\* The number of whole spans advance_buffer_for_time(t) advances by.
SpansElapsed(cb, t) ==
    LET elapsed == DurationSince(t, cb.last_record) IN
    IF elapsed = 0 THEN 0
    ELSE elapsed \div cb.settings.buffer_span_duration

\* Mutant of AdvanceBufferForTime: the reference time is not stored.
AdvanceBufferForTimeKeepsReference(cb, t) ==
    LET elapsed == DurationSince(t, cb.last_record) IN
    IF elapsed = 0 THEN cb
    ELSE
        LET spans_elapsed == elapsed \div cb.settings.buffer_span_duration IN
        IF spans_elapsed > 0
        THEN [cb EXCEPT !.buffer = Advance(cb.buffer, spans_elapsed)]
        ELSE cb

\* Mutant of AdvanceBufferForTime: the reference time is stored at every
\* call, also when no span has elapsed.
AdvanceBufferForTimeTouches(cb, t) ==
    LET elapsed == DurationSince(t, cb.last_record) IN
    IF elapsed = 0 THEN cb
    ELSE
        LET spans_elapsed == elapsed \div cb.settings.buffer_span_duration IN
        IF spans_elapsed > 0
        THEN [cb EXCEPT !.buffer = Advance(cb.buffer, spans_elapsed),
                        !.last_record = t]
        ELSE [cb EXCEPT !.last_record = t]

AdvanceBufferForTime(cb, t) ==
    LET elapsed == DurationSince(t, cb.last_record) IN
    IF elapsed = 0 THEN cb
    ELSE
        LET spans_elapsed == elapsed \div cb.settings.buffer_span_duration IN
        IF spans_elapsed > 0
        THEN [cb EXCEPT !.buffer = Advance(cb.buffer, spans_elapsed),
                        !.last_record = t]
        ELSE cb

\* Mutant of AdvanceBufferForTimePanics: the division is made before the
\* elapsed time is looked at.
AdvanceBufferForTimeDividesFirst(cb, t) ==
    cb.settings.buffer_span_duration = 0

\* Whether advance_buffer_for_time(t) panics: with time elapsed since
\* last_record it divides by buffer_span_duration, and the division of two
\* u128 panics on a divisor of 0.  The panic comes before anything is
\* written: the breaker is left as it was.
AdvanceBufferForTimePanics(cb, t) ==
    /\ DurationSince(t, cb.last_record) # 0
    /\ cb.settings.buffer_span_duration = 0

\* Mutant of ExceedsThreshold: the comparison is not strict.
ExceedsOrMeetsThreshold(rate, error_threshold) == rate >= error_threshold

\* The comparison of evaluate_state's Closed arm.
ExceedsThreshold(rate, error_threshold) == rate > error_threshold

\* Mutant of RetryDue: the comparison is strict.
RetryOverdue(elapsed, retry_timeout) == elapsed > retry_timeout

\* The comparison of evaluate_state's Open arm.
RetryDue(elapsed, retry_timeout) == elapsed >= retry_timeout

\* Mutant of TrialPassed: the comparison is strict.
TrialExceeded(trial, required) == trial > required

\* The comparison of evaluate_state's HalfOpen arm.
TrialPassed(trial, required) == trial >= required

\* Mutant of EvaluateState: closing keeps trial_success.
EvaluateStateKeepsTrial(cb, r1, r2) ==
    CASE cb.state.tag = "Open" ->
            IF RetryDue(DurationSince(r1, cb.state.at), cb.settings.retry_timeout)
            THEN [cb EXCEPT !.state = HalfOpen]
            ELSE cb
      [] cb.state.tag = "Closed" ->
            LET adv == AdvanceBufferForTime(cb, r1) IN
            IF ExceedsThreshold(GetErrorRate(adv.buffer, cb.settings.min_eval_size),
                                cb.settings.error_threshold)
            THEN [adv EXCEPT !.state = Open(r2)]
            ELSE adv
      [] cb.state.tag = "HalfOpen" ->
            IF TrialPassed(cb.trial_success, cb.settings.trial_success_required)
            THEN [cb EXCEPT !.state = Closed,
                            !.buffer = RingBufferNew(cb.settings.buffer_size),
                            !.last_record = r1,
                            !.start_time = r2]
            ELSE cb

\* Mutant of EvaluateState: the window is advanced for the current time in
\* every state, not only when the breaker is Closed.
EvaluateStateAdvancesAlways(cb, r1, r2) ==
    LET adv == AdvanceBufferForTime(cb, r1) IN
    CASE cb.state.tag = "Open" ->
            IF RetryDue(DurationSince(r1, cb.state.at), cb.settings.retry_timeout)
            THEN [adv EXCEPT !.state = HalfOpen]
            ELSE adv
      [] cb.state.tag = "Closed" ->
            IF ExceedsThreshold(GetErrorRate(adv.buffer, cb.settings.min_eval_size),
                                cb.settings.error_threshold)
            THEN [adv EXCEPT !.state = Open(r2)]
            ELSE adv
      [] cb.state.tag = "HalfOpen" ->
            IF TrialPassed(cb.trial_success, cb.settings.trial_success_required)
            THEN [cb EXCEPT !.trial_success = 0,
                            !.state = Closed,
                            !.buffer = RingBufferNew(cb.settings.buffer_size),
                            !.last_record = r1,
                            !.start_time = r2]
            ELSE adv

\* Mutant of EvaluateState: an Open breaker stays Open whatever time passes.
EvaluateStateLatched(cb, r1, r2) ==
    CASE cb.state.tag = "Open" -> cb
      [] cb.state.tag = "Closed" ->
            LET adv == AdvanceBufferForTime(cb, r1) IN
            IF ExceedsThreshold(GetErrorRate(adv.buffer, cb.settings.min_eval_size),
                                cb.settings.error_threshold)
            THEN [adv EXCEPT !.state = Open(r2)]
            ELSE adv
      [] cb.state.tag = "HalfOpen" ->
            IF TrialPassed(cb.trial_success, cb.settings.trial_success_required)
            THEN [cb EXCEPT !.trial_success = 0,
                            !.state = Closed,
                            !.buffer = RingBufferNew(cb.settings.buffer_size),
                            !.last_record = r1,
                            !.start_time = r2]
            ELSE cb

\* Mutant of EvaluateState: an Open breaker whose retry timeout has passed
\* is closed at once, without the trial.
EvaluateStateSkipsTrial(cb, r1, r2) ==
    CASE cb.state.tag = "Open" ->
            IF RetryDue(DurationSince(r1, cb.state.at), cb.settings.retry_timeout)
            THEN [cb EXCEPT !.state = Closed]
            ELSE cb
      [] cb.state.tag = "Closed" ->
            LET adv == AdvanceBufferForTime(cb, r1) IN
            IF ExceedsThreshold(GetErrorRate(adv.buffer, cb.settings.min_eval_size),
                                cb.settings.error_threshold)
            THEN [adv EXCEPT !.state = Open(r2)]
            ELSE adv
      [] cb.state.tag = "HalfOpen" ->
            IF TrialPassed(cb.trial_success, cb.settings.trial_success_required)
            THEN [cb EXCEPT !.trial_success = 0,
                            !.state = Closed,
                            !.buffer = RingBufferNew(cb.settings.buffer_size),
                            !.last_record = r1,
                            !.start_time = r2]
            ELSE cb

\* Mutant of EvaluateState: the Closed arm compares the rate of the window
\* as it finds it, and advances the window afterwards.
EvaluateStateChecksFirst(cb, r1, r2) ==
    CASE cb.state.tag = "Open" ->
            IF RetryDue(DurationSince(r1, cb.state.at), cb.settings.retry_timeout)
            THEN [cb EXCEPT !.state = HalfOpen]
            ELSE cb
      [] cb.state.tag = "Closed" ->
            LET adv == AdvanceBufferForTime(cb, r1) IN
            IF ExceedsThreshold(GetErrorRate(cb.buffer, cb.settings.min_eval_size),
                                cb.settings.error_threshold)
            THEN [adv EXCEPT !.state = Open(r2)]
            ELSE adv
      [] cb.state.tag = "HalfOpen" ->
            IF TrialPassed(cb.trial_success, cb.settings.trial_success_required)
            THEN [cb EXCEPT !.trial_success = 0,
                            !.state = Closed,
                            !.buffer = RingBufferNew(cb.settings.buffer_size),
                            !.last_record = r1,
                            !.start_time = r2]
            ELSE cb

\* Mutant of EvaluateState: closing keeps the reference time of the window
\* it replaces.
EvaluateStateKeepsTimeBase(cb, r1, r2) ==
    CASE cb.state.tag = "Open" ->
            IF RetryDue(DurationSince(r1, cb.state.at), cb.settings.retry_timeout)
            THEN [cb EXCEPT !.state = HalfOpen]
            ELSE cb
      [] cb.state.tag = "Closed" ->
            LET adv == AdvanceBufferForTime(cb, r1) IN
            IF ExceedsThreshold(GetErrorRate(adv.buffer, cb.settings.min_eval_size),
                                cb.settings.error_threshold)
            THEN [adv EXCEPT !.state = Open(r2)]
            ELSE adv
      [] cb.state.tag = "HalfOpen" ->
            IF TrialPassed(cb.trial_success, cb.settings.trial_success_required)
            THEN [cb EXCEPT !.trial_success = 0,
                            !.state = Closed,
                            !.buffer = RingBufferNew(cb.settings.buffer_size),
                            !.start_time = r2]
            ELSE cb

\* evaluate_state; r1 and r2 are the first and second reading of the clock
\* it takes (an arm may take fewer).
EvaluateState(cb, r1, r2) ==
    CASE cb.state.tag = "Open" ->
            IF RetryDue(DurationSince(r1, cb.state.at), cb.settings.retry_timeout)
            THEN [cb EXCEPT !.state = HalfOpen]
            ELSE cb
      [] cb.state.tag = "Closed" ->
            LET adv == AdvanceBufferForTime(cb, r1) IN
            IF ExceedsThreshold(GetErrorRate(adv.buffer, cb.settings.min_eval_size),
                                cb.settings.error_threshold)
            THEN [adv EXCEPT !.state = Open(r2)]
            ELSE adv
      [] cb.state.tag = "HalfOpen" ->
            IF TrialPassed(cb.trial_success, cb.settings.trial_success_required)
            THEN [cb EXCEPT !.trial_success = 0,
                            !.state = Closed,
                            !.buffer = RingBufferNew(cb.settings.buffer_size),
                            !.last_record = r1,
                            !.start_time = r2]
            ELSE cb

\* How many readings of the clock evaluate_state takes.
EvaluateReads(cb, r1) ==
    CASE cb.state.tag = "Open" -> 1
      [] cb.state.tag = "Closed" ->
            IF EvaluateState(cb, r1, r1).state.tag = "Open" THEN 2 ELSE 1
      [] cb.state.tag = "HalfOpen" ->
            IF EvaluateState(cb, r1, r1).state.tag = "Closed" THEN 2 ELSE 0

\* Whether evaluate_state panics: only its Closed arm advances the window.
EvaluatePanics(cb, r1) ==
    cb.state.tag = "Closed" /\ AdvanceBufferForTimePanics(cb, r1)

\* Mutant of LazyEvaluate: only a Closed breaker is evaluated.
LazyEvaluateClosedOnly(cb, r1, r2) ==
    IF cb.state.tag = "Closed" THEN EvaluateState(cb, r1, r2) ELSE cb

\* The guard of get_state and record: evaluate only when Open or Closed.
LazyEvaluate(cb, r1, r2) ==
    IF cb.state.tag \in {"Open", "Closed"} THEN EvaluateState(cb, r1, r2) ELSE cb

LazyReads(cb, r1) ==
    IF cb.state.tag \in {"Open", "Closed"} THEN EvaluateReads(cb, r1) ELSE 0

\* Mutant of GetState: the breaker is evaluated in every state.
GetStateEvaluatesAlways(cb, r1, r2) == EvaluateState(cb, r1, r2)

\* get_state: the breaker after the call (the value returned is its state).
GetState(cb, r1, r2) == LazyEvaluate(cb, r1, r2)

\* Mutant of RecordMatch: an Open breaker records like a Closed one.
RecordMatchWhileOpen(cb, ok, r1, r2) ==
    CASE cb.state.tag = "HalfOpen" ->
            IF ok
            THEN EvaluateState([cb EXCEPT !.trial_success = @ + 1], r1, r2)
            ELSE [cb EXCEPT !.state = Open(r1), !.trial_success = 0]
      [] cb.state.tag \in {"Open", "Closed"} ->
            IF ok
            THEN [cb EXCEPT !.buffer = AddSuccess(cb.buffer)]
            ELSE [cb EXCEPT !.buffer = AddFailure(cb.buffer)]

\* Mutant of RecordMatch: a failed trial keeps the trial successes.
RecordMatchKeepsTrial(cb, ok, r1, r2) ==
    CASE cb.state.tag = "Open" -> cb
      [] cb.state.tag = "HalfOpen" ->
            IF ok
            THEN EvaluateState([cb EXCEPT !.trial_success = @ + 1], r1, r2)
            ELSE [cb EXCEPT !.state = Open(r1)]
      [] cb.state.tag = "Closed" ->
            LET adv == AdvanceBufferForTime(cb, r1) IN
            IF ok
            THEN [adv EXCEPT !.buffer = AddSuccess(adv.buffer)]
            ELSE [adv EXCEPT !.buffer = AddFailure(adv.buffer)]

\* Mutant of RecordMatch: a Closed breaker adds the outcome without advancing
\* the window first.
RecordMatchNoAdvance(cb, ok, r1, r2) ==
    CASE cb.state.tag = "Open" -> cb
      [] cb.state.tag = "HalfOpen" ->
            IF ok
            THEN EvaluateState([cb EXCEPT !.trial_success = @ + 1], r1, r2)
            ELSE [cb EXCEPT !.state = Open(r1), !.trial_success = 0]
      [] cb.state.tag = "Closed" ->
            IF ok
            THEN [cb EXCEPT !.buffer = AddSuccess(cb.buffer)]
            ELSE [cb EXCEPT !.buffer = AddFailure(cb.buffer)]

\* Mutant of RecordMatch: a trial success is also added to the window.
RecordMatchTrialRecorded(cb, ok, r1, r2) ==
    CASE cb.state.tag = "Open" -> cb
      [] cb.state.tag = "HalfOpen" ->
            IF ok
            THEN EvaluateState([cb EXCEPT !.trial_success = @ + 1,
                                          !.buffer = AddSuccess(cb.buffer)],
                               r1, r2)
            ELSE [cb EXCEPT !.state = Open(r1), !.trial_success = 0]
      [] cb.state.tag = "Closed" ->
            LET adv == AdvanceBufferForTime(cb, r1) IN
            IF ok
            THEN [adv EXCEPT !.buffer = AddSuccess(adv.buffer)]
            ELSE [adv EXCEPT !.buffer = AddFailure(adv.buffer)]

\* Mutant of RecordMatch: a trial success is not counted.
RecordMatchTrialNotCounted(cb, ok, r1, r2) ==
    CASE cb.state.tag = "Open" -> cb
      [] cb.state.tag = "HalfOpen" ->
            IF ok
            THEN EvaluateState(cb, r1, r2)
            ELSE [cb EXCEPT !.state = Open(r1), !.trial_success = 0]
      [] cb.state.tag = "Closed" ->
            LET adv == AdvanceBufferForTime(cb, r1) IN
            IF ok
            THEN [adv EXCEPT !.buffer = AddSuccess(adv.buffer)]
            ELSE [adv EXCEPT !.buffer = AddFailure(adv.buffer)]

\* Mutant of RecordMatch: the report that comes with the opening of the
\* breaker is still added to the window.
RecordMatchCountsOpeningReport(cb, ok, r1, r2) ==
    CASE cb.state.tag = "Open" ->
            IF cb.state.at < r1 THEN cb
            ELSE IF ok
            THEN [cb EXCEPT !.buffer = AddSuccess(cb.buffer)]
            ELSE [cb EXCEPT !.buffer = AddFailure(cb.buffer)]
      [] cb.state.tag = "HalfOpen" ->
            IF ok
            THEN EvaluateState([cb EXCEPT !.trial_success = @ + 1], r1, r2)
            ELSE [cb EXCEPT !.state = Open(r1), !.trial_success = 0]
      [] cb.state.tag = "Closed" ->
            LET adv == AdvanceBufferForTime(cb, r1) IN
            IF ok
            THEN [adv EXCEPT !.buffer = AddSuccess(adv.buffer)]
            ELSE [adv EXCEPT !.buffer = AddFailure(adv.buffer)]

\* Mutant of RecordMatch: a failed trial opens the breaker with the time kept
\* in last_record.
RecordMatchReopensStale(cb, ok, r1, r2) ==
    CASE cb.state.tag = "Open" -> cb
      [] cb.state.tag = "HalfOpen" ->
            IF ok
            THEN EvaluateState([cb EXCEPT !.trial_success = @ + 1], r1, r2)
            ELSE [cb EXCEPT !.state = Open(cb.last_record), !.trial_success = 0]
      [] cb.state.tag = "Closed" ->
            LET adv == AdvanceBufferForTime(cb, r1) IN
            IF ok
            THEN [adv EXCEPT !.buffer = AddSuccess(adv.buffer)]
            ELSE [adv EXCEPT !.buffer = AddFailure(adv.buffer)]

\* The match of record, on the breaker as the evaluation left it; r1 and r2
\* are the readings of the clock taken from here on.
RecordMatch(cb, ok, r1, r2) ==
    CASE cb.state.tag = "Open" -> cb
      [] cb.state.tag = "HalfOpen" ->
            IF ok
            THEN EvaluateState([cb EXCEPT !.trial_success = @ + 1], r1, r2)
            ELSE [cb EXCEPT !.state = Open(r1), !.trial_success = 0]
      [] cb.state.tag = "Closed" ->
            LET adv == AdvanceBufferForTime(cb, r1) IN
            IF ok
            THEN [adv EXCEPT !.buffer = AddSuccess(adv.buffer)]
            ELSE [adv EXCEPT !.buffer = AddFailure(adv.buffer)]

RecordMatchReads(cb, ok, r1) ==
    CASE cb.state.tag = "Open" -> 0
      [] cb.state.tag = "HalfOpen" ->
            IF ok
            THEN EvaluateReads([cb EXCEPT !.trial_success = @ + 1], r1)
            ELSE 1
      [] cb.state.tag = "Closed" -> 1

\* record; r is the sequence of readings of the clock, in order.
Record(cb, ok, r) ==
    LET n == LazyReads(cb, r[1])
        evaluated == LazyEvaluate(cb, r[1], r[2])
    IN  RecordMatch(evaluated, ok, r[n + 1], r[n + 2])

RecordReads(cb, ok, r) ==
    LET n == LazyReads(cb, r[1])
        evaluated == LazyEvaluate(cb, r[1], r[2])
    IN  n + RecordMatchReads(evaluated, ok, r[n + 1])

\* Whether record panics: in its evaluation, or in its Closed arm, which
\* advances the window and adds the outcome at the cursor.
RecordPanics(cb, ok, r) ==
    \/ EvaluatePanics(cb, r[1])
    \/ LET n == LazyReads(cb, r[1])
           evaluated == LazyEvaluate(cb, r[1], r[2])
       IN  /\ evaluated.state.tag = "Closed"
           /\ \/ AdvanceBufferForTimePanics(evaluated, r[n + 1])
              \/ AddPanics(AdvanceBufferForTime(evaluated, r[n + 1]).buffer)

\* The breaker a record that panics leaves behind: what was written before
\* the panic stays (the evaluation, the advance), nothing is added.
RecordUnwound(cb, ok, r) ==
    IF EvaluatePanics(cb, r[1]) THEN cb
    ELSE
        LET n == LazyReads(cb, r[1])
            evaluated == LazyEvaluate(cb, r[1], r[2])
        IN  IF AdvanceBufferForTimePanics(evaluated, r[n + 1]) THEN evaluated
            ELSE AdvanceBufferForTime(evaluated, r[n + 1])

\* get_settings and get_trial_success.
GetSettings(cb) == cb.settings
GetTrialSuccess(cb) == cb.trial_success

\* get_error_rate of the breaker.
CBGetErrorRate(cb) == GetErrorRate(cb.buffer, cb.settings.min_eval_size)

\* Mutant of GetElapsedTime: the time is measured from last_record.
GetElapsedTimeSinceRecord(cb, buffer_span_duration, t) ==
    DurationSince(t, cb.last_record) % buffer_span_duration

\* get_elapsed_time(buffer_span_duration, now): the remainder of the time
\* since start_time by the span passed.  The cast of the remainder to u64
\* nanoseconds loses nothing below 2^64 ns, which no time of the model
\* comes near.
GetElapsedTime(cb, buffer_span_duration, t) ==
    DurationSince(t, cb.start_time) % buffer_span_duration

----------------------------------------------------------------------------
(* The calls.                                                              *)

Min(a, b) == IF a <= b THEN a ELSE b

\* The ticks that may pass between two readings of the clock in one call
\* (a delay before a reading the call does not take is left at 0).
Delays == {0, 1}

\* The settings breakers are built with.
SettingsSpace ==
    [buffer_size : {3},
     buffer_span_duration : {2},
     min_eval_size : {2},
     error_threshold : {4999, 5000},
     retry_timeout : {2},
     trial_success_required : {1, 2}]

\* All observations held by the nodes of rb.
RECURSIVE HeldFrom(_, _)
HeldFrom(rb, i) ==
    IF i >= GetSize(rb) THEN 0
    ELSE rb.nodes[i].failure_count + rb.nodes[i].success_count + HeldFrom(rb, i + 1)

Held(rb) == HeldFrom(rb, 0)

(***************************************************************************)
(* `call` is history: the last call and what it observed.                  *)
(*   op, ok, arg  the call, the outcome reported, its argument (for a     *)
(*                scripted caller: how many calls of its script are made)  *)
(*   pre          the state's tag when the call was made                   *)
(*   trial        trial_success when the call was made                     *)
(*   mid          the state's tag after the call's lazy evaluation         *)
(*   steps        the spans the call advanced the window by                *)
(*   evicted      the observations the call's advances zeroed              *)
(*   ret          the value returned (a rate), 0 if none                   *)
(*   oks          the record(Ok) calls handled as trials since the breaker *)
(*                last became HalfOpen                                     *)
(*   run          the spans the window advanced by since an outcome was    *)
(*                last added to it, counted up to the number of nodes      *)
(***************************************************************************)
OksAfter(mid, counted) ==
    IF mid # "HalfOpen" THEN 0
    ELSE (IF state.tag = "HalfOpen" THEN call.oks ELSE 0)
         + (IF counted THEN 1 ELSE 0)

RunAfter(rb, steps) == Min(call.run + steps, GetSize(rb))

Install(cb) ==
    /\ buffer' = cb.buffer
    /\ state' = cb.state
    /\ last_record' = cb.last_record
    /\ start_time' = cb.start_time
    /\ trial_success' = cb.trial_success
    /\ settings' = cb.settings

\* A breaker just built; the two readings of the clock new takes fall in
\* the same tick.  The history keeps the settings passed to new as the
\* argument of the call.
Init ==
    \E s \in SettingsSpace, d \in {0} :
        \E cb \in {New(s, 0, d)} :
            /\ buffer = cb.buffer
            /\ state = cb.state
            /\ last_record = cb.last_record
            /\ start_time = cb.start_time
            /\ trial_success = cb.trial_success
            /\ settings = cb.settings
            /\ now = d
            /\ call = [op |-> "new", ok |-> FALSE, arg |-> s, pre |-> "Closed",
                       trial |-> 0, mid |-> "Closed", steps |-> 0, evicted |-> 0,
                       ret |-> 0, oks |-> 0, run |-> 0]

\* Time passes between calls, up to `limit`.
TickWith(arg, limit) ==
    /\ now < limit
    /\ now' = now + 1
    /\ call' = [op |-> "tick", ok |-> FALSE, arg |-> arg, pre |-> state.tag,
                trial |-> trial_success, mid |-> state.tag, steps |-> 0,
                evicted |-> 0, ret |-> 0, oks |-> OksAfter(state.tag, FALSE),
                run |-> call.run]
    /\ UNCHANGED <<settings, buffer, state, last_record, start_time, trial_success>>

Tick == TickWith(0, MaxTime)

GetStateWith(arg, limit) ==
    \E d \in Delays :
        \E r \in {<<now, now, now + d>>} :
        \E cb \in {GetState(CB, r[2], r[3])} :
        \E n \in {LazyReads(CB, r[2])} :
        \E steps \in {IF state.tag = "Closed" THEN SpansElapsed(CB, r[2]) ELSE 0} :
            /\ r[n + 1] <= limit
            /\ (n < 2 => d = 0)
            /\ Install(cb)
            /\ now' = r[n + 1]
            /\ call' = [op |-> "get_state", ok |-> FALSE, arg |-> arg,
                        pre |-> state.tag, trial |-> trial_success,
                        mid |-> cb.state.tag, steps |-> steps,
                        evicted |-> Held(buffer) - Held(cb.buffer), ret |-> 0,
                        oks |-> OksAfter(cb.state.tag, FALSE),
                        run |-> RunAfter(cb.buffer, steps)]

GetStateCall == GetStateWith(0, MaxTime)

\* evaluate_state is public: it is also called directly.
EvaluateStateCall ==
    \E d \in Delays :
        \E r \in {<<now, now, now + d>>} :
        \E cb \in {EvaluateState(CB, r[2], r[3])} :
        \E n \in {EvaluateReads(CB, r[2])} :
        \E steps \in {IF state.tag = "Closed" THEN SpansElapsed(CB, r[2]) ELSE 0} :
            /\ r[n + 1] <= MaxTime
            /\ (n < 2 => d = 0)
            /\ Install(cb)
            /\ now' = r[n + 1]
            /\ call' = [op |-> "evaluate_state", ok |-> FALSE, arg |-> 0,
                        pre |-> state.tag, trial |-> trial_success,
                        mid |-> cb.state.tag, steps |-> steps,
                        evicted |-> Held(buffer) - Held(cb.buffer), ret |-> 0,
                        oks |-> OksAfter(cb.state.tag, FALSE),
                        run |-> IF state.tag = "HalfOpen" /\ cb.state.tag = "Closed"
                                THEN 0 ELSE RunAfter(cb.buffer, steps)]

\* record(Ok) or record(Err), by a caller that stops when the clock has
\* passed `limit` or the window holds `held` observations; arg is the
\* caller's note in the history.
RecordWith(ok, arg, limit, held) ==
    \E d1 \in Delays, d2 \in Delays :
        \E r \in {<<now, now + d1, now + d1 + d2, now + d1 + d2>>} :
        \E mid \in {LazyEvaluate(CB, r[1], r[2])} :
        \E m \in {LazyReads(CB, r[1])} :
        \E cb \in {RecordMatch(mid, ok, r[m + 1], r[m + 2])} :
        \E n \in {m + RecordMatchReads(mid, ok, r[m + 1])} :
        \E steps \in {(IF state.tag = "Closed" THEN SpansElapsed(CB, r[1]) ELSE 0)
                      + (IF mid.state.tag = "Closed"
                         THEN SpansElapsed(mid, r[m + 1]) ELSE 0)} :
            /\ (<<now>> \o r)[n + 1] <= limit
            /\ (n < 2 => d1 = 0) /\ (n < 3 => d2 = 0)
            /\ Held(cb.buffer) <= held
            /\ Install(cb)
            /\ now' = (<<now>> \o r)[n + 1]
            /\ call' = [op |-> "record", ok |-> ok, arg |-> arg,
                        pre |-> state.tag, trial |-> trial_success,
                        mid |-> mid.state.tag, steps |-> steps,
                        evicted |-> IF cb.state.tag = "Closed" /\ mid.state.tag = "Closed"
                                    THEN Held(buffer) + 1 - Held(cb.buffer)
                                    ELSE Held(buffer) - Held(cb.buffer),
                        ret |-> 0, oks |-> OksAfter(mid.state.tag, ok),
                        run |-> IF mid.state.tag = "Closed" \/ cb.state.tag = "Closed"
                                THEN 0 ELSE RunAfter(cb.buffer, steps)]

RecordCall ==
    \E ok \in BOOLEAN : RecordWith(ok, 0, MaxTime, MaxHeld)

\* advance_buffer_for_time(Instant::now()).
AdvanceBufferForTimeCall ==
    \E cb \in {AdvanceBufferForTime(CB, now)} :
    \E steps \in {SpansElapsed(CB, now)} :
        /\ Install(cb)
        /\ now' = now
        /\ call' = [op |-> "advance_buffer_for_time", ok |-> FALSE, arg |-> now,
                    pre |-> state.tag, trial |-> trial_success, mid |-> state.tag,
                    steps |-> steps, evicted |-> Held(buffer) - Held(cb.buffer),
                    ret |-> 0, oks |-> OksAfter(state.tag, FALSE),
                    run |-> RunAfter(cb.buffer, steps)]

\* Mutant of GetErrorRateWith: the window is advanced for the current time
\* before the rate is computed.
GetErrorRateWithAdvancing(arg) ==
    \E cb \in {AdvanceBufferForTime(CB, now)} :
        /\ Install(cb)
        /\ now' = now
        /\ call' = [op |-> "get_error_rate", ok |-> FALSE, arg |-> arg,
                    pre |-> state.tag, trial |-> trial_success, mid |-> state.tag,
                    steps |-> 0, evicted |-> 0, ret |-> CBGetErrorRate(cb),
                    oks |-> OksAfter(state.tag, FALSE), run |-> call.run]

GetErrorRateWith(arg) ==
    /\ call' = [op |-> "get_error_rate", ok |-> FALSE, arg |-> arg,
                pre |-> state.tag, trial |-> trial_success, mid |-> state.tag,
                steps |-> 0, evicted |-> 0, ret |-> CBGetErrorRate(CB),
                oks |-> OksAfter(state.tag, FALSE), run |-> call.run]
    /\ UNCHANGED <<settings, buffer, state, last_record, start_time, trial_success, now>>

GetErrorRateCall == GetErrorRateWith(0)

Next ==
    \/ Tick
    \/ GetStateCall
    \/ EvaluateStateCall
    \/ RecordCall
    \/ AdvanceBufferForTimeCall
    \/ GetErrorRateCall

Spec == Init /\ [][Next]_vars

----------------------------------------------------------------------------
(* RingBuffer on its own: its methods called directly (the breaker hands   *)
(* its buffer out through get_buffer).  The breaker around it stands still.*)

\* The sizes the buffers are built with.
RBSizes == {1, 2, 3}

\* The min_eval_size values get_error_rate is called with.
EvalSizes == 0 .. MaxObservations + 1

RBSettings(n) ==
    [buffer_size |-> n, buffer_span_duration |-> 2, min_eval_size |-> 0,
     error_threshold |-> 5000, retry_timeout |-> 2, trial_success_required |-> 2]

InitRB ==
    \E n \in RBSizes :
        /\ buffer = RingBufferNew(n)
        /\ state = Closed
        /\ last_record = 0
        /\ start_time = 0
        /\ trial_success = 0
        /\ settings = RBSettings(n)
        /\ now = 0
        /\ call = [op |-> "new", ok |-> FALSE, arg |-> 0, pre |-> "Closed",
                   trial |-> 0, mid |-> "Closed", steps |-> 0, evicted |-> 0,
                   ret |-> 0, oks |-> 0, run |-> 0]

RBCall(op, arg, rb, steps, ret, run) ==
    /\ buffer' = rb
    /\ call' = [op |-> op, ok |-> FALSE, arg |-> arg, pre |-> "Closed",
                trial |-> 0, mid |-> "Closed", steps |-> steps,
                evicted |-> IF op = "advance" THEN Held(buffer) - Held(rb) ELSE 0,
                ret |-> ret, oks |-> 0, run |-> run]
    /\ UNCHANGED <<settings, state, last_record, start_time, trial_success, now>>

RBAdvance ==
    \E steps \in 0 .. MaxSteps :
        \E rb \in {Advance(buffer, steps)} :
            RBCall("advance", steps, rb, steps, 0, RunAfter(rb, steps))

RBAddFailure ==
    /\ Held(buffer) < MaxObservations
    /\ RBCall("add_failure", 0, AddFailure(buffer), 0, 0, 0)

RBAddSuccess ==
    /\ Held(buffer) < MaxObservations
    /\ RBCall("add_success", 0, AddSuccess(buffer), 0, 0, 0)

RBGetErrorRate ==
    \E m \in EvalSizes :
        RBCall("get_error_rate", m, buffer, 0, GetErrorRate(buffer, m), call.run)

NextRB ==
    \/ RBAdvance
    \/ RBAddFailure
    \/ RBAddSuccess
    \/ RBGetErrorRate

SpecRB == InitRB /\ [][NextRB]_vars

----------------------------------------------------------------------------
(* RingBuffer after many reports: a buffer of two nodes whose first node   *)
(* has been added hundreds of failures and successes, then advanced and    *)
(* asked for its rate.                                                     *)

RateFailures == MaxRateFailures - 5 .. MaxRateFailures
RateSuccesses == MaxRateSuccesses - 3 .. MaxRateSuccesses

\* RingBuffer::new(2) followed by f add_failure and s add_success calls.
InitRate ==
    \E f \in RateFailures, s \in RateSuccesses :
        /\ buffer = [RingBufferNew(2) EXCEPT
                        !.nodes[0] = [failure_count |-> f, success_count |-> s]]
        /\ state = Closed
        /\ last_record = 0
        /\ start_time = 0
        /\ trial_success = 0
        /\ settings = RBSettings(2)
        /\ now = 0
        /\ call = [op |-> "add_success", ok |-> FALSE, arg |-> 0, pre |-> "Closed",
                   trial |-> 0, mid |-> "Closed", steps |-> 0, evicted |-> 0,
                   ret |-> 0, oks |-> 0, run |-> 0]

NextRate ==
    \/ RBAdvance
    \/ RBGetErrorRate

SpecRate == InitRate /\ [][NextRate]_vars

----------------------------------------------------------------------------
(* The breaker under every call its interface offers: the settings reach   *)
(* the small capacities and trial_success_required = 0,                    *)
(* advance_buffer_for_time is called with any timestamp, and the buffer    *)
(* handed out by get_buffer is advanced directly.                          *)

SettingsWide ==
    [buffer_size : {1, 2},
     buffer_span_duration : {1},
     min_eval_size : {1},
     error_threshold : {5000},
     retry_timeout : {1},
     trial_success_required : {0, 2}]

InitWide ==
    \E s \in SettingsWide :
        \E cb \in {New(s, 0, 0)} :
            /\ buffer = cb.buffer
            /\ state = cb.state
            /\ last_record = cb.last_record
            /\ start_time = cb.start_time
            /\ trial_success = cb.trial_success
            /\ settings = cb.settings
            /\ now = 0
            /\ call = [op |-> "new", ok |-> FALSE, arg |-> 0, pre |-> "Closed",
                       trial |-> 0, mid |-> "Closed", steps |-> 0, evicted |-> 0,
                       ret |-> 0, oks |-> 0, run |-> 0]

\* advance_buffer_for_time(t): the caller passes any Instant, one it kept
\* from an earlier reading of the clock or one it computed.
AdvanceBufferForTimeAt ==
    \E t \in 0 .. MaxTimeWide + 1 :
        \E cb \in {AdvanceBufferForTime(CB, t)} :
        \E steps \in {SpansElapsed(CB, t)} :
            /\ Install(cb)
            /\ now' = now
            /\ call' = [op |-> "advance_buffer_for_time", ok |-> FALSE, arg |-> t,
                        pre |-> state.tag, trial |-> trial_success,
                        mid |-> state.tag, steps |-> steps,
                        evicted |-> Held(buffer) - Held(cb.buffer), ret |-> 0,
                        oks |-> OksAfter(state.tag, FALSE),
                        run |-> RunAfter(cb.buffer, steps)]

\* get_buffer().advance(steps).
BufferAdvanceCall ==
    \E steps \in 0 .. MaxSteps :
        \E rb \in {Advance(buffer, steps)} :
            /\ buffer' = rb
            /\ call' = [op |-> "advance", ok |-> FALSE, arg |-> steps,
                        pre |-> state.tag, trial |-> trial_success,
                        mid |-> state.tag, steps |-> steps,
                        evicted |-> Held(buffer) - Held(rb), ret |-> 0,
                        oks |-> OksAfter(state.tag, FALSE),
                        run |-> RunAfter(rb, steps)]
            /\ UNCHANGED <<settings, state, last_record, start_time,
                           trial_success, now>>

\* The calls of Spec, while the clock is within MaxTimeWide.
WideTick == Tick /\ now' <= MaxTimeWide
WideGetState == GetStateCall /\ now' <= MaxTimeWide
WideEvaluateState == EvaluateStateCall /\ now' <= MaxTimeWide
WideRecord == RecordCall /\ now' <= MaxTimeWide

NextWide ==
    \/ WideTick
    \/ WideGetState
    \/ WideEvaluateState
    \/ WideRecord
    \/ AdvanceBufferForTimeAt
    \/ BufferAdvanceCall

SpecWide == InitWide /\ [][NextWide]_vars

----------------------------------------------------------------------------
(* A scripted caller: one breaker, one tick being 200 ms, and the calls    *)
(* below made in order while the clock runs.                               *)

ScenarioSettings ==
    [buffer_size |-> 5,
     buffer_span_duration |-> 5,
     min_eval_size |-> 4,
     error_threshold |-> 3999,
     retry_timeout |-> 1,
     trial_success_required |-> 3]

\* "F" is record(Err), "S" record(Ok), "+F" a record(Err) made when one more
\* span has elapsed, "rate" get_error_rate, "state" get_state made
\* retry_timeout or more after the breaker opened.
ScenarioCalls ==
    <<"F", "S", "S", "S", "S",
      "+F", "F", "F", "F", "F", "rate",
      "+F", "S", "F", "rate",
      "state",
      "S", "S", "S">>

InitScenario ==
    \E cb \in {New(ScenarioSettings, 0, 0)} :
        /\ buffer = cb.buffer
        /\ state = cb.state
        /\ last_record = cb.last_record
        /\ start_time = cb.start_time
        /\ trial_success = cb.trial_success
        /\ settings = cb.settings
        /\ now = 0
        /\ call = [op |-> "new", ok |-> FALSE, arg |-> 0, pre |-> "Closed",
                   trial |-> 0, mid |-> "Closed", steps |-> 0, evicted |-> 0,
                   ret |-> 0, oks |-> 0, run |-> 0]

ScenarioTick == TickWith(call.arg, MaxTimeScenario)

\* The next report of the script; outcomes reported to an Open breaker come
\* at once, before retry_timeout.
ScenarioReport ==
    /\ call.arg < Len(ScenarioCalls)
    /\ ScenarioCalls[call.arg + 1] \in {"F", "S", "+F"}
    /\ state.tag = "Open" => now - state.at < settings.retry_timeout
    /\ RecordWith(ScenarioCalls[call.arg + 1] = "S", call.arg + 1,
                  MaxTimeScenario, Len(ScenarioCalls))
    /\ call'.steps = IF ScenarioCalls[call.arg + 1] = "+F" THEN 1 ELSE 0

ScenarioErrorRate ==
    /\ call.arg < Len(ScenarioCalls)
    /\ ScenarioCalls[call.arg + 1] = "rate"
    /\ GetErrorRateWith(call.arg + 1)

ScenarioGetState ==
    /\ call.arg < Len(ScenarioCalls)
    /\ ScenarioCalls[call.arg + 1] = "state"
    /\ state.tag = "Open" => now - state.at >= settings.retry_timeout
    /\ GetStateWith(call.arg + 1, MaxTimeScenario)

NextScenario ==
    \/ ScenarioTick
    \/ ScenarioReport
    \/ ScenarioErrorRate
    \/ ScenarioGetState

SpecScenario == InitScenario /\ [][NextScenario]_vars

----------------------------------------------------------------------------
(* A caller that reports no failure once the breaker has opened, while     *)
(* time keeps passing and it keeps calling record(Ok).                     *)

\* The settings of the breakers this caller uses.
SettingsLive ==
    [buffer_size : {3},
     buffer_span_duration : {2},
     min_eval_size : {2},
     error_threshold : {5000},
     retry_timeout : {2},
     trial_success_required : {1, 2}]

InitLive ==
    \E s \in SettingsLive :
        \E cb \in {New(s, 0, 0)} :
            /\ buffer = cb.buffer
            /\ state = cb.state
            /\ last_record = cb.last_record
            /\ start_time = cb.start_time
            /\ trial_success = cb.trial_success
            /\ settings = cb.settings
            /\ now = 0
            /\ call = [op |-> "new", ok |-> FALSE, arg |-> 0, pre |-> "Closed",
                       trial |-> 0, mid |-> "Closed", steps |-> 0, evicted |-> 0,
                       ret |-> 0, oks |-> 0, run |-> 0]

LiveTick == TickWith(0, MaxTimeLive)

LiveRecordOk == RecordWith(TRUE, 0, MaxTimeLive, MaxHeldLive)

\* Failures are reported to a Closed breaker only.
LiveRecordErr ==
    /\ state.tag = "Closed"
    /\ RecordWith(FALSE, 0, MaxTimeLive, MaxHeldLive)

LiveGetState == GetStateWith(0, MaxTimeLive)

NextLive ==
    \/ LiveTick
    \/ LiveRecordOk
    \/ LiveRecordErr
    \/ LiveGetState

\* The clock is not held back and the caller does not stop calling
\* record(Ok).
SpecLive ==
    /\ InitLive
    /\ [][NextLive]_vars
    /\ WF_vars(LiveTick)
    /\ WF_vars(LiveRecordOk)

----------------------------------------------------------------------------
(* The edges of the interface: breakers built with buffer_size 0, 1 and 2  *)
(* and with buffer_span_duration 0 and 1, get_node_info called with        *)
(* indices inside and outside the buffer, and the calls that index the     *)
(* nodes or divide by the span.  Here `call` is                            *)
(*   op, ok, arg  the call, the outcome reported, its argument             *)
(*   ret          the rate returned, 0 if none                             *)
(*   panicked     whether the call panicked                                *)
(*   info         the NodeInfo returned, <<>> if none                      *)

EdgeSizes == {0, 1, 2}
EdgeSpans == {0, 1}

EdgeSettings(n) ==
    [buffer_size |-> n, buffer_span_duration |-> 1, min_eval_size |-> 1,
     error_threshold |-> 5000, retry_timeout |-> 1, trial_success_required |-> 1]

EdgeCall(op, ok, arg, ret, panicked, info) ==
    [op |-> op, ok |-> ok, arg |-> arg, ret |-> ret, panicked |-> panicked,
     info |-> info]

\* CircuitBreaker::new with each of the sizes and spans.
InitEdge ==
    \E n \in EdgeSizes, span \in EdgeSpans :
        \E cb \in {New([EdgeSettings(n) EXCEPT !.buffer_span_duration = span],
                        0, 0)} :
            /\ buffer = cb.buffer
            /\ state = cb.state
            /\ last_record = cb.last_record
            /\ start_time = cb.start_time
            /\ trial_success = cb.trial_success
            /\ settings = cb.settings
            /\ now = 0
            /\ call = EdgeCall("new", FALSE, n, 0, FALSE, <<>>)

EdgeTick ==
    /\ now < MaxTimeEdge
    /\ now' = now + 1
    /\ call' = EdgeCall("tick", FALSE, 0, 0, FALSE, <<>>)
    /\ UNCHANGED <<settings, buffer, state, last_record, start_time, trial_success>>

\* get_buffer().advance(steps).
EdgeAdvance ==
    \E steps \in 0 .. MaxSteps :
        /\ buffer' = Advance(buffer, steps)
        /\ call' = EdgeCall("advance", FALSE, steps, 0, FALSE, <<>>)
        /\ UNCHANGED <<settings, state, last_record, start_time, trial_success, now>>

\* get_buffer().add_success() and get_buffer().add_failure().
EdgeAdd ==
    \E ok \in BOOLEAN :
        /\ Held(buffer) < MaxHeldEdge
        /\ buffer' = IF AddPanics(buffer) THEN buffer
                     ELSE IF ok THEN AddSuccess(buffer) ELSE AddFailure(buffer)
        /\ call' = EdgeCall(IF ok THEN "add_success" ELSE "add_failure", ok, 0, 0,
                            AddPanics(buffer), <<>>)
        /\ UNCHANGED <<settings, state, last_record, start_time, trial_success, now>>

EdgeGetErrorRate ==
    /\ call' = EdgeCall("get_error_rate", FALSE, 0, CBGetErrorRate(CB), FALSE, <<>>)
    /\ UNCHANGED <<settings, buffer, state, last_record, start_time, trial_success, now>>

\* get_buffer().get_node_info(index).
EdgeGetNodeInfo ==
    \E index \in 0 .. MaxIndex :
        \E got \in {GetNodeInfo(buffer, index)} :
            /\ call' = EdgeCall("get_node_info", FALSE, index, 0, got.panicked, got.info)
            /\ UNCHANGED <<settings, buffer, state, last_record, start_time,
                           trial_success, now>>

\* record; the readings of the clock within the call fall in one tick.
EdgeRecord ==
    \E ok \in BOOLEAN :
        \E r \in {<<now, now, now, now>>} :
        \E panicked \in {RecordPanics(CB, ok, r)} :
        \E cb \in {IF panicked THEN RecordUnwound(CB, ok, r) ELSE Record(CB, ok, r)} :
            /\ Held(cb.buffer) <= MaxHeldEdge
            /\ Install(cb)
            /\ now' = now
            /\ call' = EdgeCall("record", ok, 0, 0, panicked, <<>>)

\* get_state; the readings of the clock within the call fall in one tick.
EdgeGetState ==
    \E panicked \in {EvaluatePanics(CB, now)} :
    \E cb \in {IF panicked THEN CB ELSE GetState(CB, now, now)} :
        /\ Install(cb)
        /\ now' = now
        /\ call' = EdgeCall("get_state", FALSE, 0, 0, panicked, <<>>)

NextEdge ==
    \/ EdgeTick
    \/ EdgeAdvance
    \/ EdgeAdd
    \/ EdgeGetErrorRate
    \/ EdgeGetNodeInfo
    \/ EdgeRecord
    \/ EdgeGetState

SpecEdge == InitEdge /\ [][NextEdge]_vars

----------------------------------------------------------------------------
(* A caller that only reports outcomes and asks for the state: record and  *)
(* get_state, made at any time while the clock runs.                       *)

NextCalls ==
    \/ Tick
    \/ GetStateCall
    \/ RecordCall

SpecCalls == Init /\ [][NextCalls]_vars

----------------------------------------------------------------------------
(* get_elapsed_time, called with any span and any time on a breaker that   *)
(* records outcomes while the clock runs (closing it restarts start_time). *)
(* The argument kept in the history is <<span, time>>, the value returned  *)
(* is kept as ret.                                                         *)

ElapsedSettings ==
    [buffer_size |-> 2, buffer_span_duration |-> 1, min_eval_size |-> 1,
     error_threshold |-> 5000, retry_timeout |-> 1, trial_success_required |-> 1]

InitElapsed ==
    \E cb \in {New(ElapsedSettings, 0, 0)} :
        /\ buffer = cb.buffer
        /\ state = cb.state
        /\ last_record = cb.last_record
        /\ start_time = cb.start_time
        /\ trial_success = cb.trial_success
        /\ settings = cb.settings
        /\ now = 0
        /\ call = [op |-> "new", ok |-> FALSE, arg |-> <<0, 0>>, pre |-> "Closed",
                   trial |-> 0, mid |-> "Closed", steps |-> 0, evicted |-> 0,
                   ret |-> 0, oks |-> 0, run |-> 0]

ElapsedTick == TickWith(<<0, 0>>, MaxTimeElapsed)

ElapsedRecord ==
    \E ok \in BOOLEAN : RecordWith(ok, <<0, 0>>, MaxTimeElapsed, MaxHeldElapsed)

\* get_elapsed_time(span, t); the method takes &self.
GetElapsedTimeCall ==
    \E span \in 1 .. MaxSpanArg, t \in 0 .. MaxTimeElapsed + MaxSpanArg :
        /\ call' = [op |-> "get_elapsed_time", ok |-> FALSE, arg |-> <<span, t>>,
                    pre |-> state.tag, trial |-> trial_success, mid |-> state.tag,
                    steps |-> 0, evicted |-> 0,
                    ret |-> GetElapsedTime(CB, span, t),
                    oks |-> OksAfter(state.tag, FALSE), run |-> call.run]
        /\ UNCHANGED <<settings, buffer, state, last_record, start_time,
                       trial_success, now>>

NextElapsed ==
    \/ ElapsedTick
    \/ ElapsedRecord
    \/ GetElapsedTimeCall

SpecElapsed == InitElapsed /\ [][NextElapsed]_vars

----------------------------------------------------------------------------
(* Properties.                                                             *)

RECURSIVE SumOver(_, _)
SumOver(f, S) ==
    IF S = {} THEN 0
    ELSE LET x == CHOOSE x \in S : TRUE IN f[x] + SumOver(f, S \ {x})

\* The buckets other than the one at the cursor, and what they hold.
Completed(rb) == DOMAIN rb.nodes \ {rb.cursor}
CompletedFailures(rb) ==
    SumOver([i \in DOMAIN rb.nodes |-> rb.nodes[i].failure_count], Completed(rb))
CompletedSuccesses(rb) ==
    SumOver([i \in DOMAIN rb.nodes |-> rb.nodes[i].success_count], Completed(rb))
CompletedTotal(rb) == CompletedFailures(rb) + CompletedSuccesses(rb)

AllZero(rb) ==
    \A i \in DOMAIN rb.nodes :
        rb.nodes[i].failure_count = 0 /\ rb.nodes[i].success_count = 0

\* The window and the rate a Closed breaker's evaluation at time t compares.
WindowAt(t) == AdvanceBufferForTime(CB, t).buffer
RateAt(t) == GetErrorRate(WindowAt(t), settings.min_eval_size)

\* C1 (threshold strictness): a get_state or record call that finds the
\* breaker Closed advances the window for the current time and then opens the
\* breaker, with a timestamp read during the call, if and only if the error
\* rate of the advanced window is greater than error_threshold; a rate equal
\* to the threshold leaves it Closed, a rate 0.01 above it opens it.
C1_Step ==
    (call'.op \in {"get_state", "record"} /\ state.tag = "Closed") =>
        /\ call'.mid = "Open" <=> RateAt(now) > settings.error_threshold
        /\ RateAt(now) = settings.error_threshold => call'.mid = "Closed"
        /\ RateAt(now) = settings.error_threshold + 1 => call'.mid = "Open"
        /\ call'.mid = "Open" =>
              /\ state'.tag = "Open"
              /\ now <= state'.at /\ state'.at <= now'
              /\ buffer' = WindowAt(now)
        /\ (call'.mid = "Closed" /\ call'.op = "get_state") =>
              /\ state' = Closed
              /\ buffer' = WindowAt(now)
C1_ThresholdStrictness == [][C1_Step]_vars

\* C1 witness: get_state has evaluated a Closed breaker whose error rate is
\* exactly error_threshold (and not 0), and the breaker is still Closed.
C1_Witness ==
    /\ call.op = "get_state"
    /\ call.pre = "Closed"
    /\ state = Closed
    /\ CBGetErrorRate(CB) = settings.error_threshold
    /\ CBGetErrorRate(CB) > 0

\* C1, the other side (reachability only): a rate 0.01 above the threshold
\* has opened the breaker.
C1_OpenedJustAbove ==
    /\ call.op \in {"get_state", "record"}
    /\ call.pre = "Closed"
    /\ state.tag = "Open"
    /\ CBGetErrorRate(CB) = settings.error_threshold + 1

\* C2 (Open is inert): a record call, Ok or Err, made while the breaker is
\* Open and less than retry_timeout after it opened changes no bucket count,
\* not the cursor, not trial_success and not the Open timestamp.
C2_Step ==
    (/\ call'.op = "record"
     /\ state.tag = "Open"
     /\ DurationSince(now, state.at) < settings.retry_timeout) =>
        /\ buffer' = buffer
        /\ trial_success' = trial_success
        /\ state' = state
C2_OpenIsInert == [][C2_Step]_vars

\* C2 witness: record(Err) was called on an Open breaker that holds
\* observations, before the retry timeout, and the breaker is still Open.
C2_Witness ==
    /\ call.op = "record"
    /\ ~call.ok
    /\ call.pre = "Open"
    /\ call.mid = "Open"
    /\ state.tag = "Open"
    /\ DurationSince(now, state.at) < settings.retry_timeout
    /\ Held(buffer) > 0

\* C3 (lazy retry): a get_state or record call made on an Open(since)
\* breaker at time now moves it to HalfOpen when now - since >= retry_timeout
\* and leaves it Open with the same timestamp otherwise; the passing of time
\* alone changes nothing.
C3_Step ==
    /\ (call'.op \in {"get_state", "record"} /\ state.tag = "Open") =>
          IF now - state.at >= settings.retry_timeout
          THEN /\ call'.mid = "HalfOpen"
               /\ call'.op = "get_state" => state' = HalfOpen
          ELSE /\ call'.mid = "Open"
               /\ state' = state
    /\ call'.op = "tick" => state' = state
C3_LazyRetry == [][C3_Step]_vars

\* C3 witness: get_state, called on an Open breaker exactly retry_timeout
\* after it opened, has made it HalfOpen.
C3_Witness ==
    /\ call.op = "get_state"
    /\ call.pre = "Open"
    /\ state = HalfOpen
    /\ settings.retry_timeout > 0

\* C4 (no partial credit): record(Err) on a HalfOpen breaker, whatever
\* trial_success is, makes it Open(now) and sets trial_success to 0; so does
\* record(Err) on a breaker its own evaluation has just made HalfOpen, with
\* a timestamp read during the call.
C4_Step ==
    /\ (call'.op = "record" /\ ~call'.ok /\ state.tag = "HalfOpen") =>
          /\ state' = Open(now)
          /\ trial_success' = 0
    /\ (call'.op = "record" /\ ~call'.ok /\ call'.mid = "HalfOpen") =>
          /\ state'.tag = "Open"
          /\ now <= state'.at /\ state'.at <= now'
          /\ trial_success' = 0
C4_NoPartialCredit == [][C4_Step]_vars

\* C4 witness: record(Err) reopened a HalfOpen breaker that was one success
\* short of closing and had at least one.
C4_Witness ==
    /\ call.op = "record"
    /\ ~call.ok
    /\ call.pre = "HalfOpen"
    /\ call.trial = settings.trial_success_required - 1
    /\ call.trial > 0
    /\ state.tag = "Open"
    /\ trial_success = 0

\* C5 (closing): with trial_success_required >= 1, the record(Ok) calls on a
\* HalfOpen breaker count trial_success 1, 2, ... and the breaker stays
\* HalfOpen until the trial_success_required-th of them since it became
\* HalfOpen; that one makes it Closed with every bucket 0/0, cursor 0 and
\* trial_success 0.
C5_Step ==
    (/\ call'.op = "record" /\ call'.ok /\ call'.mid = "HalfOpen"
     /\ settings.trial_success_required >= 1) =>
        IF call'.oks = settings.trial_success_required
        THEN /\ state' = Closed
             /\ buffer'.cursor = 0
             /\ GetSize(buffer') = settings.buffer_size
             /\ AllZero(buffer')
             /\ trial_success' = 0
        ELSE /\ call'.oks < settings.trial_success_required
             /\ state' = HalfOpen
             /\ trial_success' = call'.oks
             /\ buffer' = buffer
C5_ClosesOnRequiredSuccess == [][C5_Step]_vars

\* C5 witness: the second of two required record(Ok) calls has closed the
\* breaker and emptied a window that held observations.
C5_Witness ==
    /\ call.op = "record"
    /\ call.ok
    /\ call.mid = "HalfOpen"
    /\ call.oks = settings.trial_success_required
    /\ call.oks >= 2
    /\ call.evicted > 0
    /\ state = Closed

\* C6 (min-eval gating): whenever the buckets other than the one at the
\* cursor hold fewer than min_eval_size observations, get_error_rate is 0,
\* also when all of them are failures; and an evaluation (get_state, record
\* or evaluate_state) that finds the breaker Closed and, once it has advanced
\* the window, fewer than min_eval_size such observations, does not open it.
C6_Gated ==
    CompletedTotal(buffer) < settings.min_eval_size => CBGetErrorRate(CB) = 0
C6_Step ==
    (/\ call'.op \in {"get_state", "record", "evaluate_state"}
     /\ state.tag = "Closed"
     /\ CompletedTotal(WindowAt(now)) < settings.min_eval_size) =>
        /\ call'.mid = "Closed"
        /\ call'.op # "record" => state' = Closed
C6_MinEvalGating == []C6_Gated /\ [][C6_Step]_vars

\* C6 witness: get_state has evaluated a Closed breaker whose completed
\* buckets hold only failures, fewer than min_eval_size, under a threshold
\* below 100%; the rate is 0 and the breaker is still Closed.
C6_Witness ==
    /\ call.op = "get_state"
    /\ call.pre = "Closed"
    /\ state = Closed
    /\ CompletedFailures(buffer) > 0
    /\ CompletedSuccesses(buffer) = 0
    /\ CompletedTotal(buffer) < settings.min_eval_size
    /\ settings.error_threshold < 10000
    /\ CBGetErrorRate(CB) = 0

\* C7 (the rate): get_error_rate(min_eval_size), with F and S the failures
\* and successes of the buckets other than the one at the cursor, returns 0
\* if F + S < min_eval_size or F + S = 0 and otherwise 100 * F / (F + S)
\* rounded to two decimals: the hundredth nearest to it, either one when it
\* lies halfway (5 failures of 6 give 83.33); with min_eval_size = 0 every
\* non-zero count is evaluated.
C7_ErrorRate ==
    call.op = "get_error_rate" =>
        LET F == CompletedFailures(buffer)
            S == CompletedSuccesses(buffer)
            m == call.arg
        IN  /\ (F + S < m \/ F + S = 0) => call.ret = 0
            /\ (F + S >= m /\ F + S > 0) =>
                  \* call.ret / 100 is 100 * F / (F + S) to the nearest 0.01
                  /\ 2 * call.ret * (F + S) <= 2 * 10000 * F + (F + S)
                  /\ 2 * call.ret * (F + S) >= 2 * 10000 * F - (F + S)
            /\ (F = 5 /\ S = 1 /\ m <= 6) => call.ret = 8333
            /\ (m = 0 /\ F > 0) => call.ret > 0

\* C7, what the code does (reachability only): for 775 failures of 913
\* observations, 84.8850 percent, get_error_rate returned 84.89: the f32
\* quotient times 10_000.0 is 8488.5 after rounding to f32.
C7_RoundedAcross ==
    /\ call.op = "get_error_rate"
    /\ CompletedFailures(buffer) = 775
    /\ CompletedSuccesses(buffer) = 138
    /\ call.arg = 0
    /\ call.ret = 8489

\* C7, small counts (reachability only): get_error_rate has returned 83.33
\* for 5 failures of 6.
C7_Witness ==
    /\ call.op = "get_error_rate"
    /\ CompletedFailures(buffer) = 5
    /\ CompletedSuccesses(buffer) = 1
    /\ call.arg = 6
    /\ call.ret = 8333

\* C8 (the current bucket is excluded): get_error_rate is the same whatever
\* the bucket at the cursor holds, and a record call on a Closed breaker that
\* crosses no span boundary leaves get_error_rate as it was.
C8_Excluded ==
    \A f \in 0 .. 2, s \in 0 .. 2 :
        GetErrorRate([buffer EXCEPT !.nodes[buffer.cursor] =
                         [failure_count |-> f, success_count |-> s]],
                     settings.min_eval_size)
            = CBGetErrorRate(CB)
C8_Step ==
    (/\ call'.op = "record"
     /\ state.tag = "Closed" /\ state'.tag = "Closed"
     /\ call'.steps = 0) =>
        GetErrorRate(buffer', settings.min_eval_size) = CBGetErrorRate(CB)
C8_CurrentBucketExcluded == []C8_Excluded /\ [][C8_Step]_vars

\* C8 witness: record(Err) has added a failure to the current bucket of a
\* Closed breaker, crossing no span boundary, and the rate is neither 0 nor
\* 100%: counting that failure would have raised it.
C8_Witness ==
    /\ call.op = "record"
    /\ ~call.ok
    /\ call.pre = "Closed"
    /\ state = Closed
    /\ call.steps = 0
    /\ buffer.nodes[buffer.cursor].failure_count > 0
    /\ CBGetErrorRate(CB) > 0
    /\ CBGetErrorRate(CB) < 10000

\* C9 (skip-reset): advance(k) with 1 <= k < capacity from cursor c moves the
\* cursor to (c + k) mod capacity and zeroes exactly the buckets
\* (c + 1) mod capacity ... (c + k) mod capacity; every other bucket, the
\* previous current bucket c among them, keeps its counts.
C9_Step ==
    (call'.op = "advance" /\ 1 <= call'.arg /\ call'.arg < GetSize(buffer)) =>
        LET k == call'.arg
            c == buffer.cursor
            capacity == GetSize(buffer)
        IN  /\ buffer'.cursor = (c + k) % capacity
            /\ DOMAIN buffer'.nodes = DOMAIN buffer.nodes
            /\ \A i \in DOMAIN buffer.nodes :
                  IF \E j \in 1 .. k : i = (c + j) % capacity
                  THEN buffer'.nodes[i] = [failure_count |-> 0, success_count |-> 0]
                  ELSE buffer'.nodes[i] = buffer.nodes[i]
C9_SkipReset == [][C9_Step]_vars

\* C9 witness: advance(2) on a buffer of 3 has zeroed observations and the
\* bucket that was current before still holds both failures and successes.
C9_Witness ==
    /\ call.op = "advance"
    /\ call.arg = 2
    /\ GetSize(buffer) = 3
    /\ call.evicted > 0
    /\ buffer.nodes[(buffer.cursor + 1) % 3].failure_count > 0
    /\ buffer.nodes[(buffer.cursor + 1) % 3].success_count > 0

\* C10 (bounded memory): once the window has advanced by capacity spans or
\* more in all since an outcome was last added, in one advance or in several,
\* every bucket is 0/0.
C10_BoundedMemory ==
    call.run >= GetSize(buffer) => AllZero(buffer)

\* C10 witness: the last of three advances by one span on a buffer of 3, with
\* no outcome added in between, has zeroed the last observations.
C10_Witness ==
    /\ call.op = "advance"
    /\ call.arg = 1
    /\ GetSize(buffer) = 3
    /\ call.run = 3
    /\ call.evicted > 0

\* C10, the other way (reachability only): one advance by capacity spans has
\* zeroed a window that held observations.
C10_SingleAdvance ==
    /\ call.op = "advance"
    /\ call.arg = GetSize(buffer)
    /\ call.run = GetSize(buffer)
    /\ call.evicted > 1

\* C11 (idempotent advance): in every state of the breaker and for every
\* timestamp t, advance_buffer_for_time(t) called again with the same t
\* changes neither the cursor nor a bucket count nor last_record.
C11_Step ==
    /\ (/\ call.op = "advance_buffer_for_time"
        /\ call'.op = "advance_buffer_for_time"
        /\ call'.arg = call.arg) =>
          /\ call'.steps = 0
          /\ buffer' = buffer
          /\ last_record' = last_record
    /\ call'.op = "advance_buffer_for_time" =>
          /\ AdvanceBufferForTime(CB', call'.arg).buffer = buffer'
          /\ AdvanceBufferForTime(CB', call'.arg).last_record = last_record'
C11_IdempotentAdvance == [][C11_Step]_vars

\* C11 witness: advance_buffer_for_time was called again with a timestamp
\* ahead of the clock that an earlier call had advanced the window to (no
\* other call stores such a time), on a window that still holds observations,
\* and advanced by nothing.
C11_Witness ==
    /\ call.op = "advance_buffer_for_time"
    /\ call.arg > now
    /\ last_record = call.arg
    /\ call.steps = 0
    /\ call.run > 0
    /\ Held(buffer) > 0

\* C12 (absolute time-to-index mapping): an evaluation (get_state or
\* evaluate_state) of a Closed breaker at time now leaves the cursor at
\* floor((now - t0) / span) mod capacity, t0 being the time the window was
\* created or last reset, however the earlier evaluations were spread.
C12_Step ==
    (call'.op \in {"get_state", "evaluate_state"} /\ state.tag = "Closed") =>
        buffer'.cursor =
            (DurationSince(now, start_time) \div settings.buffer_span_duration)
                % settings.buffer_size
C12_AbsoluteMapping == [][C12_Step]_vars

\* C13 (evaluate before acting): record first brings the breaker up to the
\* current time (an Open breaker becomes HalfOpen once retry_timeout has
\* elapsed, a Closed one has its window advanced and opens on a rate above
\* the threshold; a HalfOpen one has nothing that time changes) and then
\* handles the outcome in the state this left: ignored when Open, added to
\* the window when Closed, a trial when HalfOpen.  So record on an Open
\* breaker whose retry_timeout has elapsed is a trial: Ok counts as the first
\* trial success, Err reopens the breaker with a timestamp read in the call.
C13_Step ==
    call'.op = "record" =>
        /\ state.tag = "Open" =>
              call'.mid = IF now - state.at >= settings.retry_timeout
                          THEN "HalfOpen" ELSE "Open"
        /\ state.tag = "Closed" =>
              call'.mid = IF RateAt(now) > settings.error_threshold
                          THEN "Open" ELSE "Closed"
        /\ state.tag = "HalfOpen" => call'.mid = "HalfOpen"
        /\ call'.mid = "Open" =>
              /\ state'.tag = "Open"
              /\ trial_success' = trial_success
              /\ buffer' = IF state.tag = "Closed" THEN WindowAt(now) ELSE buffer
        /\ call'.mid = "Closed" =>
              /\ state' = Closed
              /\ trial_success' = trial_success
              /\ IF call'.ok
                 THEN buffer'.nodes[buffer'.cursor].success_count >= 1
                 ELSE buffer'.nodes[buffer'.cursor].failure_count >= 1
        /\ call'.mid = "HalfOpen" =>
              IF call'.ok
              THEN IF trial_success + 1 >= settings.trial_success_required
                   THEN state' = Closed /\ trial_success' = 0
                   ELSE state' = HalfOpen /\ trial_success' = trial_success + 1
              ELSE /\ state'.tag = "Open"
                   /\ now <= state'.at /\ state'.at <= now'
                   /\ trial_success' = 0
C13_EvaluateBeforeActing == [][C13_Step]_vars

\* C13 witness: record(Ok) on an Open breaker whose retry_timeout had elapsed
\* was handled as the first of two required trial successes.
C13_Witness ==
    /\ call.op = "record"
    /\ call.ok
    /\ call.pre = "Open"
    /\ call.mid = "HalfOpen"
    /\ state = HalfOpen
    /\ trial_success = 1
    /\ settings.trial_success_required = 2

\* C13, the other outcome (reachability only): record(Err) on an Open breaker
\* whose retry_timeout had elapsed has reopened it at the time of the call.
C13_ReopenedFresh ==
    /\ call.op = "record"
    /\ ~call.ok
    /\ call.pre = "Open"
    /\ call.mid = "HalfOpen"
    /\ state = Open(now)
    /\ now >= settings.retry_timeout

\* C14 as stated: get_state called on a HalfOpen breaker with
\* trial_success >= trial_success_required (as with
\* trial_success_required = 0) resets the window, sets trial_success to 0 and
\* returns Closed.
C14_OriginalStep ==
    (/\ call'.op = "get_state"
     /\ state.tag = "HalfOpen"
     /\ trial_success >= settings.trial_success_required) =>
        /\ state' = Closed
        /\ trial_success' = 0
        /\ AllZero(buffer')
        /\ buffer'.cursor = 0
C14_Original == [][C14_OriginalStep]_vars

\* C14 (amended): get_state evaluates the breaker only when it is Open or
\* Closed.  Called on a HalfOpen breaker it changes nothing and returns
\* HalfOpen, also when trial_success >= trial_success_required (as with
\* trial_success_required = 0); such a breaker is closed, with the window
\* reset and trial_success 0, by a direct evaluate_state call.
C14_Step ==
    /\ (call'.op = "get_state" /\ state.tag = "HalfOpen") =>
          /\ state' = HalfOpen
          /\ trial_success' = trial_success
          /\ buffer' = buffer
          /\ last_record' = last_record
          /\ start_time' = start_time
    /\ (call'.op = "get_state" /\ state.tag = "Open") =>
          state' = IF now - state.at >= settings.retry_timeout
                   THEN HalfOpen ELSE state
    /\ (call'.op = "get_state" /\ state.tag = "Closed") =>
          /\ buffer' = WindowAt(now)
          /\ state'.tag = IF RateAt(now) > settings.error_threshold
                          THEN "Open" ELSE "Closed"
    /\ (/\ call'.op = "evaluate_state"
        /\ state.tag = "HalfOpen"
        /\ trial_success >= settings.trial_success_required) =>
          /\ state' = Closed
          /\ trial_success' = 0
          /\ AllZero(buffer')
          /\ buffer'.cursor = 0
C14_GetStateSkipsHalfOpen == [][C14_Step]_vars

\* C14 witness: get_state was called on a HalfOpen breaker that needs no
\* trial success and whose window holds observations; it is still HalfOpen.
C14_Witness ==
    /\ call.op = "get_state"
    /\ call.pre = "HalfOpen"
    /\ state = HalfOpen
    /\ trial_success >= settings.trial_success_required
    /\ Held(buffer) > 0

\* C15 (recording): a record call on a breaker that is Closed after the
\* evaluation leaves the window advanced for the time of the call (less than
\* one span lies between last_record and the clock), the cursor moved by the
\* spans advanced, the buckets passed or landed on zeroed, and then exactly
\* one count, success_count for Ok and failure_count for Err, of the bucket
\* at the new cursor raised by exactly 1; no other count changes.
C15_Step ==
    (call'.op = "record" /\ call'.mid = "Closed") =>
        LET k == call'.steps
            c == buffer.cursor
            size == GetSize(buffer)
            evicted(i) == k >= size \/ \E j \in 1 .. k : i = (c + j) % size
            kept(i) == IF evicted(i)
                       THEN [failure_count |-> 0, success_count |-> 0]
                       ELSE buffer.nodes[i]
        IN  /\ DurationSince(now', last_record') < settings.buffer_span_duration
            /\ buffer'.cursor = (c + k) % size
            /\ DOMAIN buffer'.nodes = DOMAIN buffer.nodes
            /\ \A i \in DOMAIN buffer.nodes :
                  IF i = buffer'.cursor
                  THEN /\ buffer'.nodes[i].success_count =
                            kept(i).success_count + (IF call'.ok THEN 1 ELSE 0)
                       /\ buffer'.nodes[i].failure_count =
                            kept(i).failure_count + (IF call'.ok THEN 0 ELSE 1)
                  ELSE buffer'.nodes[i] = kept(i)
C15_RecordAddsOne == [][C15_Step]_vars

\* C15 witness: record(Err) on a Closed breaker has advanced the window,
\* evicting observations and keeping others, and the bucket at the new cursor
\* holds that one failure.
C15_Witness ==
    /\ call.op = "record"
    /\ ~call.ok
    /\ call.mid = "Closed"
    /\ call.steps > 0
    /\ call.evicted > 0
    /\ buffer.nodes[buffer.cursor] = [failure_count |-> 1, success_count |-> 0]
    /\ Held(buffer) > 1

\* C16 (HalfOpen leaves the window alone): record(Ok) on a HalfOpen breaker
\* only raises trial_success by 1, unless it closes the breaker; record(Err)
\* only makes it Open with trial_success 0; and no record, get_state or
\* evaluate_state call made from the moment the breaker opened until it
\* closes changes the cursor or a bucket count.
C16_Step ==
    /\ (call'.op = "record" /\ state.tag = "HalfOpen") =>
          /\ last_record' = last_record \/ state' = Closed
          /\ start_time' = start_time \/ state' = Closed
          /\ IF call'.ok
             THEN \/ state' = Closed
                  \/ /\ state' = HalfOpen
                     /\ trial_success' = trial_success + 1
                     /\ buffer' = buffer
             ELSE /\ state'.tag = "Open"
                  /\ trial_success' = 0
                  /\ buffer' = buffer
    /\ (/\ call'.op \in {"record", "get_state", "evaluate_state"}
        /\ state.tag \in {"Open", "HalfOpen"}
        /\ state'.tag \in {"Open", "HalfOpen"}) =>
          buffer' = buffer
C16_HalfOpenKeepsWindow == [][C16_Step]_vars

\* C16 witness: record(Ok) on a HalfOpen breaker was counted as the first of
\* two trial successes, and the window still holds the failures that opened
\* the breaker.
C16_Witness ==
    /\ call.op = "record"
    /\ call.ok
    /\ call.pre = "HalfOpen"
    /\ state = HalfOpen
    /\ trial_success = 1
    /\ CompletedFailures(buffer) > 0
    /\ CBGetErrorRate(CB) > settings.error_threshold

\* C17 (cursor invariant): whatever record, get_state, evaluate_state and
\* advance calls were made on a breaker of capacity >= 1 (advances by more
\* spans than there are buckets and the reset on closing among them),
\* 0 <= cursor < number of buckets, and the number of buckets is the
\* configured capacity.
C17_CursorInvariant ==
    /\ settings.buffer_size >= 1
    /\ DOMAIN buffer.nodes = 0 .. settings.buffer_size - 1
    /\ GetSize(buffer) = settings.buffer_size
    /\ 0 <= buffer.cursor
    /\ buffer.cursor < GetSize(buffer)

\* C17 witness: advance_buffer_for_time has advanced a window of 2 buckets
\* by 3 spans, past the end and round again, from the last bucket.
C17_Witness ==
    /\ call.op = "advance_buffer_for_time"
    /\ GetSize(buffer) = 2
    /\ call.steps = 3
    /\ buffer.cursor = 0
    /\ call.evicted > 0

\* C17, the reset (reachability only): closing has replaced a window that
\* held observations by a new one, its cursor at 0.
C17_ResetOnClosing ==
    /\ call.op = "record"
    /\ call.mid = "HalfOpen"
    /\ state = Closed
    /\ call.evicted > 0
    /\ buffer.cursor = 0

\* C18 (trial_success invariant): trial_success = 0 whenever the breaker is
\* Closed or Open, and it is 0 after every step that makes the breaker Open
\* and after every step that takes it out of HalfOpen.
C18_Inv ==
    state.tag \in {"Closed", "Open"} => trial_success = 0
C18_Step ==
    /\ (state.tag # "Open" /\ state'.tag = "Open") => trial_success' = 0
    /\ (state.tag = "HalfOpen" /\ state'.tag # "HalfOpen") => trial_success' = 0
C18_TrialSuccessInvariant == []C18_Inv /\ [][C18_Step]_vars

\* C18 witness: the second of two required trial successes has closed the
\* breaker, and trial_success, 1 when the call was made, is 0.
C18_Witness ==
    /\ call.op = "record"
    /\ call.ok
    /\ call.pre = "HalfOpen"
    /\ call.trial = 1
    /\ state = Closed
    /\ trial_success = 0

\* C19 as stated: in the scenario (capacity 5, span 1 s, min_eval_size 4,
\* error_threshold 39.99, retry_timeout 200 ms, trial_success_required 3),
\* after F,S,S,S,S in bucket 0 and, one span later, 5 failures in bucket 1
\* the error rate is 20.0 and the breaker Closed; after one more span and
\* F,S,F the error rate over buckets 0 and 1 is 55.56 and the breaker Open;
\* 200 ms later get_state returns HalfOpen; three successes close the breaker
\* with all buckets zero.
C19_Original ==
    /\ (call.op = "get_error_rate" /\ call.arg = 11) =>
          call.ret = 2000 /\ state = Closed
    /\ (call.op = "get_error_rate" /\ call.arg = 15) =>
          call.ret = 5556 /\ state.tag = "Open"
    /\ (call.op = "get_state" /\ call.arg = 16) => state = HalfOpen
    /\ (call.op = "record" /\ call.arg = 19) =>
          state = Closed /\ AllZero(buffer)

\* C19 (amended): the same scenario, but the error rate over buckets 0 and 1
\* after the second span is 60.0: the buckets hold 1F/4S and 5F/0S, 6
\* failures of 10.  The evaluation that meets this window opens the breaker
\* and the outcomes reported from then on are ignored: bucket 2 holds at
\* most the first failure (when the span ended inside that record call,
\* after its evaluation).
C19_Scenario ==
    /\ (call.op = "get_error_rate" /\ call.arg = 11) =>
          /\ call.ret = 2000
          /\ state = Closed
          /\ buffer.cursor = 1
          /\ buffer.nodes[0] = [failure_count |-> 1, success_count |-> 4]
          /\ buffer.nodes[1] = [failure_count |-> 5, success_count |-> 0]
    /\ (call.op = "get_error_rate" /\ call.arg = 15) =>
          /\ call.ret = 6000
          /\ state.tag = "Open"
          /\ buffer.cursor = 2
          /\ buffer.nodes[0] = [failure_count |-> 1, success_count |-> 4]
          /\ buffer.nodes[1] = [failure_count |-> 5, success_count |-> 0]
          /\ buffer.nodes[2].failure_count <= 1
          /\ buffer.nodes[2].success_count = 0
    /\ (call.op = "get_state" /\ call.arg = 16) => state = HalfOpen
    /\ (call.op = "record" /\ call.arg \in {17, 18}) =>
          state = HalfOpen /\ trial_success = call.arg - 16
    /\ (call.op = "record" /\ call.arg = 19) =>
          /\ state = Closed
          /\ AllZero(buffer)
          /\ buffer.cursor = 0
          /\ trial_success = 0

\* C19 witness: the last call of the scenario, the third success after
\* get_state returned HalfOpen, has been made and has emptied the window.
C19_Witness ==
    /\ call.op = "record"
    /\ call.arg = 19
    /\ call.pre = "HalfOpen"
    /\ call.evicted = 10
    /\ state = Closed

\* C20 (recovery): while time keeps passing and the caller keeps calling
\* record(Ok) and reports no failure, a breaker that is Open (with
\* retry_timeout still to come within the time modelled) eventually is
\* Closed; on the way, a record(Ok) made retry_timeout or more after the
\* opening is handled as a trial, and the breaker closes with the
\* trial_success_required-th trial success and not before.
C20_Step ==
    /\ (/\ call'.op = "record" /\ call'.ok /\ state.tag = "Open"
        /\ now - state.at >= settings.retry_timeout) =>
          call'.mid = "HalfOpen" /\ call'.oks = 1
    /\ (call'.op = "record" /\ call'.mid = "HalfOpen") =>
          (state' = Closed <=> call'.oks = settings.trial_success_required)
C20_Recovery ==
    /\ (state.tag = "Open" /\ state.at + settings.retry_timeout <= MaxTimeLive)
          ~> (state = Closed)
    /\ [][C20_Step]_vars

\* C20 witness: record(Ok), called on an Open breaker once retry_timeout had
\* elapsed, was the one trial success required and has closed the breaker.
C20_Witness ==
    /\ call.op = "record"
    /\ call.ok
    /\ call.pre = "Open"
    /\ call.mid = "HalfOpen"
    /\ state = Closed
    /\ settings.trial_success_required = 1

\* C20, the longer way (reachability only): the second of two trial
\* successes has closed a breaker that get_state had made HalfOpen.
C20_ClosedAfterTwo ==
    /\ call.op = "record"
    /\ call.ok
    /\ call.pre = "HalfOpen"
    /\ call.oks = 2
    /\ state = Closed
    /\ settings.trial_success_required = 2

\* Whether the window holds failures only, all of them in the current bucket
\* and as many as an evaluation needs: once that bucket is completed the rate
\* is 100.
EnoughFailures(cb) ==
    LET f == cb.buffer.nodes[cb.buffer.cursor].failure_count IN
    /\ f >= 1
    /\ f >= cb.settings.min_eval_size
    /\ Held(cb.buffer) = f

\* A caller that wants the breaker in the state `target`, at time t: the call
\* it makes next (every reading of the clock within the call gives the same
\* time), as <<the breaker after the call, the time of the call>>.
\*   Open:     it waits until retry_timeout has elapsed and calls get_state;
\*   HalfOpen: it reports a success to close the breaker, a failure to open it;
\*   Closed:   if the window holds anything but failures in the current
\*             bucket, it waits until the whole window has expired and calls
\*             get_state; it then reports failures until the current bucket
\*             holds enough, waits for the span to end and calls get_state.
Move(cb, t, target) ==
    CASE cb.state.tag = "Open" ->
            LET due == IF t >= cb.state.at + cb.settings.retry_timeout
                       THEN t ELSE cb.state.at + cb.settings.retry_timeout
            IN  <<GetState(cb, due, due), due>>
      [] cb.state.tag = "HalfOpen" ->
            <<Record(cb, target = "Closed", <<t, t, t, t>>), t>>
      [] cb.state.tag = "Closed" ->
            LET f == cb.buffer.nodes[cb.buffer.cursor].failure_count
                from == IF t >= cb.last_record THEN t ELSE cb.last_record
                expired == from + cb.settings.buffer_size
                                  * cb.settings.buffer_span_duration
                ended == IF t >= cb.last_record + cb.settings.buffer_span_duration
                         THEN t
                         ELSE cb.last_record + cb.settings.buffer_span_duration
            IN  IF EnoughFailures(cb)
                THEN <<GetState(cb, ended, ended), ended>>
                ELSE IF Held(cb.buffer) # f
                THEN <<GetState(cb, expired, expired), expired>>
                ELSE <<Record(cb, FALSE, <<t, t, t, t>>), t>>

\* The breaker and the time after the caller has made calls until the breaker
\* is in the state `target`, or has made `moves` calls.
RECURSIVE Drive(_, _, _)
Drive(at, target, moves) ==
    IF at[1].state.tag = target \/ moves = 0 THEN at
    ELSE Drive(Move(at[1], at[2], target), target, moves - 1)

\* C21 (no terminal state): whatever calls were made before, a breaker with
\* two or more buckets (error_threshold is below 100 here) can be taken from
\* the state it is in to Open, from there to HalfOpen, from there to Closed
\* and from there to Open again, by get_state and record calls made as time
\* passes: no state is one the breaker cannot leave or cannot come back to.
C21_NoTerminalState ==
    settings.buffer_size >= 2 =>
        LET opened == Drive(<<CB, now>>, "Open", MaxMoves)
            trial == Drive(opened, "HalfOpen", MaxMoves)
            closed == Drive(trial, "Closed", MaxMoves)
            reopened == Drive(closed, "Open", MaxMoves)
        IN  /\ opened[1].state.tag = "Open"
            /\ trial[1].state.tag = "HalfOpen"
            /\ closed[1].state = Closed
            /\ reopened[1].state.tag = "Open"
            /\ reopened[1].state.at > opened[1].state.at

\* C21 witness: a breaker with two buckets is HalfOpen with a trial success
\* counted, and the calls above take it round through all three states.
C21_Witness ==
    /\ settings.buffer_size = 2
    /\ state = HalfOpen
    /\ trial_success = 1
    /\ call.op = "record"
    /\ Drive(Drive(Drive(<<CB, now>>, "Open", MaxMoves), "HalfOpen", MaxMoves),
             "Closed", MaxMoves)[1].state = Closed

\* C21, the breaker the claim leaves out (reachability only): with a single
\* bucket every observation is in the current bucket, the rate is 0 and the
\* calls above do not open a Closed breaker that holds failures.
C21_SingleBucketStaysClosed ==
    /\ settings.buffer_size = 1
    /\ state = Closed
    /\ buffer.nodes[0].failure_count >= 2
    /\ Drive(<<CB, now>>, "Open", MaxMoves)[1].state = Closed

\* C22 (the wait starts at the transition): every call that opens the
\* breaker, from Closed or from HalfOpen by a failed trial (also a trial
\* reached within a record call on an Open breaker), stores a time read during
\* that call, never an earlier one; and get_state called on an Open breaker
\* less than retry_timeout after the stored time leaves it as it is and
\* returns Open.
C22_Inv == state.tag = "Open" => state.at <= now
C22_Step ==
    /\ (state'.tag = "Open" /\ state' # state) =>
          /\ now <= state'.at /\ state'.at <= now'
          /\ call'.op \in {"get_state", "evaluate_state", "record"}
          /\ call'.op = "record" =>
                \/ call'.mid = "Open" /\ state.tag = "Closed"
                \/ call'.mid = "HalfOpen" /\ ~call'.ok
          /\ call'.op # "record" => state.tag = "Closed"
    /\ (/\ call'.op = "get_state" /\ state.tag = "Open"
        /\ now - state.at < settings.retry_timeout) =>
          /\ state' = state
          /\ call'.mid = "Open"
C22_OpenedAtTransition == []C22_Inv /\ [][C22_Step]_vars

\* C22 witness: get_state has been called on an Open breaker one tick after
\* it opened, less than retry_timeout, and the breaker is still Open.
C22_Witness ==
    /\ call.op = "get_state"
    /\ call.pre = "Open"
    /\ state.tag = "Open"
    /\ now = state.at + 1
    /\ now - state.at < settings.retry_timeout

\* C22, the failed trial (reachability only): record(Err) found the breaker
\* Open with retry_timeout elapsed, made it HalfOpen and opened it again with
\* the time of this call.
C22_ReopenedNow ==
    /\ call.op = "record"
    /\ ~call.ok
    /\ call.pre = "Open"
    /\ call.mid = "HalfOpen"
    /\ state = Open(now)
    /\ now >= 2 * settings.retry_timeout

\* C23 (bucket introspection): get_node_info called with an index at or past
\* the number of nodes (the index equal to it included) panics and returns
\* nothing; called with a smaller index it returns the failure and success
\* counts of that node; in both cases the buffer and the breaker around it
\* are left as they were.
C23_Inv ==
    call.op = "get_node_info" =>
        /\ call.panicked <=> call.arg >= GetSize(buffer)
        /\ call.panicked => call.info = <<>>
        /\ ~call.panicked =>
              call.info = <<[failure_count |-> buffer.nodes[call.arg].failure_count,
                             success_count |-> buffer.nodes[call.arg].success_count]>>
C23_Step ==
    call'.op = "get_node_info" =>
        UNCHANGED <<settings, buffer, state, last_record, start_time,
                    trial_success, now>>
C23_NodeInfoBounds == []C23_Inv /\ [][C23_Step]_vars

\* C23 witness: get_node_info was called with the index equal to the number
\* of nodes, on a buffer that holds observations, and panicked.
C23_Witness ==
    /\ call.op = "get_node_info"
    /\ call.arg = GetSize(buffer)
    /\ GetSize(buffer) = 2
    /\ Held(buffer) > 0
    /\ call.panicked
    /\ call.info = <<>>

\* C23, inside the range (reachability only): the counts of a node that
\* holds observations were returned.
C23_Returned ==
    /\ call.op = "get_node_info"
    /\ ~call.panicked
    /\ \E info \in {call.info[1]} : info.failure_count + info.success_count > 0

\* C24 (a zero-length window fails fast): on a breaker built with
\* buffer_size = 0, the construction and every advance, get_error_rate and
\* record (and every add_success and add_failure) panics; none returns
\* normally.
C24_FailsFast ==
    (/\ settings.buffer_size = 0
     /\ call.op \in {"new", "advance", "get_error_rate", "record",
                     "add_success", "add_failure"}) =>
        call.panicked

\* C24, what the code does with buffer_size = 0 (reachability only):
\* RingBuffer::advance returns at once on an empty buffer, with nothing
\* reported.
C24_AdvanceSilent ==
    /\ settings.buffer_size = 0
    /\ call.op = "advance"
    /\ call.arg > 0
    /\ ~call.panicked
    /\ buffer = RingBufferNew(0)

\* C24 (reachability only): get_error_rate of the empty window returns 0.
C24_ErrorRateSilent ==
    /\ settings.buffer_size = 0
    /\ call.op = "get_error_rate"
    /\ ~call.panicked
    /\ call.ret = 0

\* C24 (reachability only): record on the empty window panics, at the
\* indexing of add_failure, after the breaker was evaluated and last_record
\* moved.
C24_RecordPanics ==
    /\ settings.buffer_size = 0
    /\ call.op = "record"
    /\ ~call.ok
    /\ call.panicked
    /\ last_record > 0

\* C25 (get_error_rate is read-only and safe): in every state of the breaker
\* get_error_rate can be called and returns; it leaves the state,
\* trial_success, the cursor, every bucket, last_record, start_time and the
\* settings as they were, and the rate it returns is between 0 and 100
\* inclusive.
C25_Inv ==
    /\ ENABLED GetErrorRateCall
    /\ call.op = "get_error_rate" => (0 <= call.ret /\ call.ret <= 10000)
C25_Step ==
    call'.op = "get_error_rate" =>
        /\ UNCHANGED <<settings, buffer, state, last_record, start_time,
                       trial_success, now>>
        /\ call'.ret = GetErrorRate(buffer, settings.min_eval_size)
C25_ErrorRateReadOnly == []C25_Inv /\ [][C25_Step]_vars

\* C25 witness: get_error_rate was called on a HalfOpen breaker with a trial
\* success counted, whose window is more than a span old, and returned a rate
\* above 0.
C25_Witness ==
    /\ call.op = "get_error_rate"
    /\ state = HalfOpen
    /\ trial_success > 0
    /\ call.ret > 0
    /\ now - last_record >= settings.buffer_span_duration

\* C25, the other states (reachability only): the rate 100 was returned on an
\* Open breaker, and a rate was returned on a Closed one.
C25_OpenAtHundred ==
    /\ call.op = "get_error_rate"
    /\ state.tag = "Open"
    /\ call.ret = 10000
C25_ClosedWithRate ==
    /\ call.op = "get_error_rate"
    /\ state = Closed
    /\ call.ret > 0

\* C26 (a new breaker): the breaker new(settings) returns is Closed, with
\* trial_success 0, the cursor at 0, buffer_size nodes that are all zero and
\* an error rate of 0, and get_settings returns the settings passed to new;
\* no call changes what get_settings returns.
C26_Inv ==
    call.op = "new" =>
        /\ state = Closed
        /\ GetTrialSuccess(CB) = 0
        /\ GetCursor(buffer) = 0
        /\ GetSize(buffer) = call.arg.buffer_size
        /\ DOMAIN buffer.nodes = 0 .. call.arg.buffer_size - 1
        /\ AllZero(buffer)
        /\ CBGetErrorRate(CB) = 0
        /\ GetSettings(CB) = call.arg
C26_Step == GetSettings(CB)' = GetSettings(CB)
C26_NewBreaker == []C26_Inv /\ [][C26_Step]_vars

\* C26 witness: a breaker was built with error_threshold 49.99 and
\* trial_success_required 2, and holds three zeroed nodes.
C26_Witness ==
    /\ call.op = "new"
    /\ call.arg.error_threshold = 4999
    /\ call.arg.trial_success_required = 2
    /\ state = Closed
    /\ GetSize(buffer) = 3
    /\ AllZero(buffer)
    /\ settings = call.arg

\* C26, later in the lifetime (reachability only): a breaker built with these
\* settings has opened, has been closed again by its second trial success,
\* and still holds them.
C26_SettingsKept ==
    /\ call.op = "record"
    /\ call.pre = "HalfOpen"
    /\ state = Closed
    /\ GetSettings(CB).error_threshold = 4999
    /\ GetSettings(CB).trial_success_required = 2

\* C27 (a failure is followed by an evaluation): when record(Err) finds the
\* breaker Closed and its first evaluation leaves it Closed, the failure is
\* added and the Closed-state evaluation is run once more before the call
\* returns: the breaker the call leaves is one that such an evaluation, made
\* at a time t read during the call, has already brought up to date, so
\* evaluating it at t changes nothing (it is Open if the error rate of the
\* window advanced for t is above the threshold).
C27_Step ==
    (call'.op = "record" /\ ~call'.ok /\ call'.mid = "Closed") =>
        \E t \in now .. now' : EvaluateState(CB', t, t) = CB'
C27_ReevaluatesAfterAdding == [][C27_Step]_vars

\* C27, what the code does (reachability only): record(Err) evaluated a
\* Closed breaker before the span ended, advanced the window and added the
\* failure after it had ended, and returned with the breaker Closed on an
\* error rate of 100.
C27_ClosedAboveThreshold ==
    /\ call.op = "record"
    /\ ~call.ok
    /\ call.mid = "Closed"
    /\ call.steps = 1
    /\ state = Closed
    /\ last_record = now
    /\ buffer.nodes[buffer.cursor].failure_count = 1
    /\ CBGetErrorRate(CB) = 10000

\* C28 (the window is frozen while the breaker is not Closed): a get_state or
\* record call (or evaluate_state called directly) that finds the breaker
\* Open or HalfOpen and does not close it leaves the cursor, every bucket and
\* last_record as they were, however long ago the window last advanced, so
\* get_error_rate returns the same value after the call as before it; the
\* call that opens the breaker is the last one to advance the window.
C28_Step ==
    /\ (/\ call'.op \in {"get_state", "record", "evaluate_state"}
        /\ state.tag \in {"Open", "HalfOpen"}
        /\ state' # Closed) =>
          /\ buffer' = buffer
          /\ last_record' = last_record
          /\ CBGetErrorRate(CB') = CBGetErrorRate(CB)
          /\ call'.steps = 0
    /\ (/\ call'.op \in {"get_state", "record", "evaluate_state"}
        /\ state.tag = "Closed" /\ state'.tag = "Open") =>
          /\ buffer' = WindowAt(now)
          /\ CBGetErrorRate(CB') > settings.error_threshold
C28_FrozenWhileNotClosed == [][C28_Step]_vars

\* C28 witness: get_state was called on an Open breaker two spans or more
\* after its window last advanced, made it HalfOpen, and the window still
\* holds the observations that opened it.
C28_Witness ==
    /\ call.op = "get_state"
    /\ call.pre = "Open"
    /\ state = HalfOpen
    /\ now - last_record >= 2 * settings.buffer_span_duration
    /\ Held(buffer) >= 2
    /\ CBGetErrorRate(CB) > settings.error_threshold

\* C28, a report (reachability only): record(Ok) was counted as a trial
\* success two spans or more after the window last advanced, and the window
\* is as it was.
C28_TrialKeepsWindow ==
    /\ call.op = "record"
    /\ call.ok
    /\ state = HalfOpen
    /\ trial_success = 1
    /\ now - last_record >= 2 * settings.buffer_span_duration
    /\ CBGetErrorRate(CB) > settings.error_threshold

\* C29 (an advance by zero changes nothing): RingBuffer::advance(0) leaves
\* the cursor and the counts of every node, the node at the cursor included,
\* as they were.
C29_Step ==
    (call'.op = "advance" /\ call'.arg = 0) => buffer' = buffer
C29_AdvanceZeroNoMutation == [][C29_Step]_vars

\* C29, what the code does (reachability only): advance(0) on a buffer of
\* three nodes left the cursor and the other nodes alone and zeroed the node
\* at the cursor, which held observations.
C29_CurrentNodeReset ==
    /\ call.op = "advance"
    /\ call.arg = 0
    /\ GetSize(buffer) = 3
    /\ call.evicted >= 2
    /\ buffer.nodes[buffer.cursor] = NodeNew
    /\ Held(buffer) > 0

\* C30 (the report that opens the breaker is dropped): when record, with
\* either outcome, finds the breaker Closed and its evaluation opens it, the
\* call ends with the breaker Open, and the window is the one the evaluation
\* advanced: no failure count and no success count of any bucket is raised,
\* and trial_success stays 0.
C30_Step ==
    (call'.op = "record" /\ state.tag = "Closed" /\ call'.mid = "Open") =>
        /\ state'.tag = "Open"
        /\ buffer' = WindowAt(now)
        /\ \A i \in DOMAIN buffer.nodes :
              /\ buffer'.nodes[i].failure_count <= buffer.nodes[i].failure_count
              /\ buffer'.nodes[i].success_count <= buffer.nodes[i].success_count
        /\ trial_success' = 0
C30_OpeningReportDropped == [][C30_Step]_vars

\* C30 witness: record(Err) found the breaker Closed one span after its
\* window last advanced, its evaluation opened the breaker, and the bucket
\* the report would have gone to is empty.
C30_Witness ==
    /\ call.op = "record"
    /\ ~call.ok
    /\ call.pre = "Closed"
    /\ call.mid = "Open"
    /\ call.steps = 1
    /\ state.tag = "Open"
    /\ buffer.nodes[buffer.cursor] = NodeNew
    /\ Held(buffer) >= 2

\* C30, a success (reachability only): record(Ok) was dropped in the same
\* way.
C30_SuccessDropped ==
    /\ call.op = "record"
    /\ call.ok
    /\ call.pre = "Closed"
    /\ call.mid = "Open"
    /\ state.tag = "Open"
    /\ buffer.nodes[buffer.cursor] = NodeNew

\* C31 (a Closed breaker is within the threshold): after any sequence of
\* get_state and record calls, with the clock free to advance between the
\* readings one call takes, whenever a call returns with the breaker Closed
\* the error rate get_error_rate() gives at that moment is at most
\* error_threshold.
C31_ClosedWithinThreshold ==
    (call.op \in {"get_state", "record"} /\ state.tag = "Closed") =>
        CBGetErrorRate(CB) <= settings.error_threshold

\* C31, what the code does (reachability only): a record call evaluated the
\* Closed breaker below the threshold, then advanced the window at a later
\* reading of the clock and added the outcome, and returned Closed with the
\* rate of the window above the threshold.
C31_ReturnedClosedAbove ==
    /\ call.op = "record"
    /\ call.pre = "Closed"
    /\ call.mid = "Closed"
    /\ call.steps >= 1
    /\ state = Closed
    /\ CBGetErrorRate(CB) > settings.error_threshold

\* C32 (the transitions): the state changes only by Closed -> Open,
\* Open -> HalfOpen, HalfOpen -> Open and HalfOpen -> Closed.  Every call
\* goes from the state it finds, through the state its lazy evaluation
\* leaves, to the state it returns with, and each of the two legs is either
\* no change or one of the four; a call whose legs both keep the tag leaves
\* the state as it was, timestamp included.  So Closed is never followed by
\* HalfOpen, and Open by Closed only through HalfOpen (the state the
\* evaluation of a record call left).  One get_state call makes at most one
\* transition: it leaves the state as it was or changes its tag by one of
\* the four.
C32_Transitions ==
    {<<"Closed", "Open">>, <<"Open", "HalfOpen">>,
     <<"HalfOpen", "Open">>, <<"HalfOpen", "Closed">>}
C32_Step ==
    /\ state.tag # call'.mid => <<state.tag, call'.mid>> \in C32_Transitions
    /\ call'.mid # state'.tag => <<call'.mid, state'.tag>> \in C32_Transitions
    /\ (state.tag = call'.mid /\ call'.mid = state'.tag) => state' = state
    /\ call'.op = "get_state" =>
            \/ state' = state
            \/ <<state.tag, state'.tag>> \in C32_Transitions
C32_OnlyFourTransitions == [][C32_Step]_vars

\* C32 witness: one record(Ok) call found the breaker Open with the retry
\* timeout passed, made it HalfOpen, counted the trial and closed it.
C32_Witness ==
    /\ call.op = "record"
    /\ call.ok
    /\ call.pre = "Open"
    /\ call.mid = "HalfOpen"
    /\ state = Closed
    /\ settings.trial_success_required = 1

\* C33 (eviction precedes the threshold check): when get_state, record or
\* evaluate_state finds the breaker Closed and reads the clock at least
\* buffer_size spans after last_record, the evaluation zeroes every bucket
\* before it compares the rate: everything the window held is evicted,
\* whatever it was, the evaluation leaves the breaker Closed, and the call
\* returns Closed with an error rate of 0 (after get_state and
\* evaluate_state every bucket is empty; after record the window holds the
\* one outcome reported, in the current bucket).
C33_Step ==
    (/\ call'.op \in {"get_state", "record", "evaluate_state"}
     /\ state.tag = "Closed"
     /\ DurationSince(now, last_record)
            >= GetSize(buffer) * settings.buffer_span_duration) =>
        /\ call'.mid = "Closed"
        /\ state' = Closed
        /\ CBGetErrorRate(CB') = 0
        /\ call'.evicted = Held(buffer)
        /\ call'.op # "record" => AllZero(buffer')
        /\ call'.op = "record" =>
                /\ Held(buffer') = 1
                /\ CompletedTotal(buffer') = 0
C33_EvictionBeforeCheck == [][C33_Step]_vars

\* C33 witness: get_state, made buffer_size spans or more after the last
\* advance of a window of two buckets, evicted at least min_eval_size
\* observations and returned Closed with every bucket empty.
C33_Witness ==
    /\ call.op = "get_state"
    /\ call.pre = "Closed"
    /\ GetSize(buffer) = 2
    /\ call.steps >= GetSize(buffer)
    /\ call.evicted >= settings.min_eval_size
    /\ state = Closed
    /\ AllZero(buffer)
    /\ CBGetErrorRate(CB) = 0

\* C34 (a window of one bucket): with buffer_size = 1 the only bucket is the
\* current one in every reachable state (the cursor is 0), so get_error_rate
\* gives 0 and the breaker is Closed, whatever outcomes were reported and
\* however the window was advanced.
C34_SingleBucket ==
    settings.buffer_size = 1 =>
        /\ GetCursor(buffer) = 0
        /\ Completed(buffer) = {}
        /\ CBGetErrorRate(CB) = 0
        /\ state = Closed
        /\ trial_success = 0

\* C34 witness: a breaker of one bucket has just been reported a failure,
\* after time has passed; its bucket holds only failures, at least
\* min_eval_size of them, and it is Closed.
C34_Witness ==
    /\ settings.buffer_size = 1
    /\ call.op = "record"
    /\ ~call.ok
    /\ now >= 1
    /\ buffer.nodes[0].failure_count >= 2
    /\ buffer.nodes[0].failure_count >= settings.min_eval_size
    /\ buffer.nodes[0].success_count = 0
    /\ state = Closed

\* C35 (a full span between two advances): a call that finds the breaker
\* Closed and takes all its readings of the clock less than one span after
\* last_record moves neither the cursor nor last_record and evicts nothing,
\* however many such calls are made; a call made at or after
\* last_record + span advances the cursor by the whole spans elapsed and
\* stores a reading it advanced at as the new last_record.  So whenever
\* last_record changes while the breaker stays Closed, it moves forward by at
\* least one span.
C35_Step ==
    (/\ call'.op \in {"get_state", "record", "evaluate_state",
                      "advance_buffer_for_time"}
     /\ state.tag = "Closed") =>
        LET due == last_record + settings.buffer_span_duration IN
        /\ now' < due =>
                /\ GetCursor(buffer') = GetCursor(buffer)
                /\ last_record' = last_record
                /\ call'.steps = 0
                /\ call'.evicted = 0
        /\ now >= due =>
                /\ last_record' \in {now, now'}
                /\ call'.steps >= 1
                /\ call'.steps =
                        (now - last_record) \div settings.buffer_span_duration
                        + (last_record' - now) \div settings.buffer_span_duration
                /\ state'.tag = "Closed" =>
                        GetCursor(buffer') =
                            (GetCursor(buffer) + call'.steps) % GetSize(buffer)
        /\ (last_record' # last_record /\ state'.tag = "Closed") =>
                /\ last_record' >= due
                /\ call'.steps >= 1
C35_SpanBetweenAdvances == [][C35_Step]_vars

\* C35 witness: get_state was called one tick before the span of the
\* current bucket ended, at a cursor the window had been advanced to, and
\* left the cursor, last_record and the observations held where they were.
C35_Witness ==
    /\ call.op = "get_state"
    /\ call.pre = "Closed"
    /\ state = Closed
    /\ GetCursor(buffer) >= 1
    /\ Held(buffer) >= 1
    /\ now = last_record + settings.buffer_span_duration - 1
    /\ call.steps = 0
    /\ call.evicted = 0

\* C36 (closing restarts the time base): the call that takes the breaker
\* from HalfOpen to Closed leaves the cursor at 0 over an empty window and
\* stores the time t it read as last_record (and a reading not before it as
\* start_time), however long the breaker was Open or HalfOpen and wherever
\* last_record stood before.  From then on, as long as the window has not
\* been advanced since (start_time >= last_record), a call that takes all
\* its readings of the clock before t + span leaves the cursor at 0 and
\* last_record at t and evicts nothing.
C36_Step ==
    /\ (call'.mid = "HalfOpen" /\ state'.tag = "Closed") =>
            /\ GetCursor(buffer') = 0
            /\ AllZero(buffer')
            /\ last_record' \in now .. now'
            /\ start_time' \in last_record' .. now'
    /\ (/\ state.tag = "Closed"
        /\ start_time > 0
        /\ start_time >= last_record
        /\ call'.op # "tick"
        /\ now' < last_record + settings.buffer_span_duration) =>
            /\ GetCursor(buffer) = 0
            /\ GetCursor(buffer') = 0
            /\ last_record' = last_record
            /\ call'.evicted = 0
            /\ state'.tag = "Closed" => Held(buffer') >= Held(buffer)
C36_ClosingRestartsTimeBase == [][C36_Step]_vars

\* C36 witness: the breaker was closed at a time t that is no multiple of
\* the span after its construction, an outcome was recorded, and a
\* get_state call one tick later, on a span boundary counted from the
\* construction, left the cursor at 0 and evicted nothing.
C36_Witness ==
    /\ call.op = "get_state"
    /\ call.pre = "Closed"
    /\ state = Closed
    /\ start_time > 0
    /\ last_record = start_time
    /\ last_record % settings.buffer_span_duration # 0
    /\ now = last_record + 1
    /\ now % settings.buffer_span_duration = 0
    /\ GetCursor(buffer) = 0
    /\ Held(buffer) >= 1
    /\ call.steps = 0
    /\ call.evicted = 0

\* C37 (HalfOpen is short of the required successes): for
\* trial_success_required >= 1, whenever a record or get_state call has
\* returned and the breaker is HalfOpen, trial_success is at least 0 and
\* less than trial_success_required.
C37_HalfOpenBelowRequired ==
    (settings.trial_success_required >= 1 /\ state.tag = "HalfOpen") =>
        /\ GetTrialSuccess(CB) >= 0
        /\ GetTrialSuccess(CB) < settings.trial_success_required

\* C37 witness: record(Ok) has counted the first of two required trial
\* successes and returned with the breaker HalfOpen.
C37_Witness ==
    /\ call.op = "record"
    /\ call.ok
    /\ call.pre = "HalfOpen"
    /\ state = HalfOpen
    /\ settings.trial_success_required = 2
    /\ GetTrialSuccess(CB) = 1

\* C38 (a span of zero): with buffer_span_duration = 0 the construction
\* succeeds and gives a Closed breaker over an empty window.  A get_state
\* or record call that finds that breaker Closed at a time later than
\* last_record panics and leaves the cursor, the buckets, the state and
\* every other field as they were.  The panic is the division by the span:
\* on a breaker with at least one bucket, get_state and record return
\* normally when the span is not 0, when the breaker is not Closed, or when
\* no time has elapsed since last_record.
C38_Inv ==
    (call.op = "new" /\ settings.buffer_span_duration = 0) =>
        /\ ~call.panicked
        /\ CB = New(settings, now, now)
C38_Step ==
    call'.op \in {"get_state", "record"} =>
        /\ (/\ settings.buffer_span_duration = 0
            /\ state.tag = "Closed"
            /\ now > last_record) =>
                /\ call'.panicked
                /\ CB' = CB
        /\ (/\ settings.buffer_size >= 1
            /\ \/ settings.buffer_span_duration # 0
               \/ state.tag # "Closed"
               \/ now = last_record) =>
                ~call'.panicked
C38_ZeroSpanPanics == []C38_Inv /\ [][C38_Step]_vars

\* C38 witness: get_state was called on a Closed breaker with a span of 0
\* and two buckets, one tick or more after last_record, with observations in
\* the window; it panicked, and the breaker is Closed at the cursor it had.
C38_Witness ==
    /\ call.op = "get_state"
    /\ call.panicked
    /\ settings.buffer_span_duration = 0
    /\ settings.buffer_size = 2
    /\ state = Closed
    /\ now > last_record
    /\ Held(buffer) > 0

\* C38 (reachability only): record, made on the same kind of breaker after
\* outcomes had been recorded in the tick of its construction, panicked and
\* added nothing.
C38_RecordPanicked ==
    /\ call.op = "record"
    /\ call.panicked
    /\ settings.buffer_span_duration = 0
    /\ settings.buffer_size = 1
    /\ state = Closed
    /\ last_record = 0
    /\ now = 1
    /\ Held(buffer) = MaxHeldEdge

\* C39 (get_elapsed_time): called with a span and a time t not before
\* start_time, get_elapsed_time returns the remainder of t - start_time by
\* the span: a value r with 0 <= r < span such that t is start_time plus a
\* whole number of spans plus r; it is 0 exactly when t is a whole number of
\* spans after start_time.  The call changes nothing of the breaker.
C39_Step ==
    call'.op = "get_elapsed_time" =>
        LET span == call'.arg[1]
            t == call'.arg[2]
        IN  /\ t >= start_time =>
                    /\ call'.ret >= 0
                    /\ call'.ret < span
                    /\ \E k \in 0 .. t : start_time + k * span + call'.ret = t
                    /\ call'.ret = 0 <=> \E k \in 0 .. t : start_time + k * span = t
            /\ CB' = CB
            /\ now' = now
C39_ElapsedTime == [][C39_Step]_vars

\* C39 witness: on a breaker that was closed after its construction and
\* whose window has advanced since (start_time and last_record differ and
\* neither is the time of construction), get_elapsed_time was called with a
\* span of 2 and a time three ticks after start_time and returned 1.
C39_Witness ==
    /\ call.op = "get_elapsed_time"
    /\ start_time > 0
    /\ last_record # start_time
    /\ call.arg = <<2, start_time + 3>>
    /\ call.ret = 1

====
